---- MODULE Spec2Model ----
(***************************************************************************)
(* Induction-variable recognition and loop-governing attribution of        *)
(* src/parallelization_utilities/src/InductionVariables.cpp, modelled as   *)
(* state machines over a small in-memory program representation.           *)
(*                                                                         *)
(*   SpecAttr  : LoopGoverningIVAttribution's constructor on one IV.       *)
(*   SpecIVs   : InductionVariables' constructor scanning a loop header.   *)
(*   SpecXform : LoopGoverningIVUtility's constructor (exit predicate).    *)
(***************************************************************************)
EXTENDS Integers, Sequences, FiniteSets, TLC

(***************************************************************************)
(* Bounds of the model.                                                    *)
(***************************************************************************)
\* constant steps range over -MaxStep..MaxStep without 0
MaxStep == 1
\* number of merge nodes (PHIs) in the loop header
MaxPhis == 2

(***************************************************************************)
(* The program representation.                                             *)
(***************************************************************************)
Null == "null"
\* a null ConstantInt* / an absent step; a present one is <<n>>
NoStep == <<>>

PhiNames == <<"phi1", "phi2", "phi3", "phi4">>
IncNames == <<"inc1", "inc2", "inc3", "inc4">>
Phis == {PhiNames[i] : i \in 1..MaxPhis}
Incs == {IncNames[i] : i \in 1..MaxPhis}
\* phi<i>, inc<i>: a header PHI and its accumulator; c: the candidate
\* condition operand; a, b: its producers; x: one more value of any shape;
\* cmp, br: the header's condition and terminator
Values == Phis \cup Incs \cup {"c", "a", "b", "x", "cmp", "br"}

\* value shapes told apart by isa<> / dyn_cast<> in the source; "Term" is a
\* terminator that is no BranchInst, "NonInst" a Value that is no Instruction
Kinds == {"PHI", "GEP", "Cmp", "CondBr", "UncondBr", "Term", "Inst", "NonInst"}

LoopBlocks == {"header", "body", "latch"}
OutsideBlocks == {"pre", "pre2", "exit", "exit2"}

isaInstruction(ir, v) == ir.kind[v] # "NonInst"
isaPHINode(ir, v) == ir.kind[v] = "PHI"
isaBranchInst(ir, v) == ir.kind[v] \in {"CondBr", "UncondBr"}
isaCmpInst(ir, v) == ir.kind[v] = "Cmp"
isaGetElementPtrInst(ir, v) == ir.kind[v] = "GEP"

\* SCC::isInternal
isInternal(scc, v) == v \in scc.internal
\* DGNode::getIncomingEdges: the dependences whose consumer is v
getIncomingEdges(scc, v) == {e \in scc.edges : e.to = v}

(***************************************************************************)
(* InductionVariable::InductionVariable                                    *)
(***************************************************************************)
\* The worklist traversal of the SCC from the header PHI: every value popped
\* is marked visited, and the producers of its incoming data dependences that
\* are internal to the SCC are pushed.
FollowsEdge(scc, edge) == edge.data /\ isInternal(scc, edge.from)

RECURSIVE CollectIntermediateValues(_, _, _)
CollectIntermediateValues(scc, work, valuesVisited) ==
  IF work = {} THEN valuesVisited
  ELSE LET value == CHOOSE v \in work : TRUE
           rest == work \ {value}
       IN IF value \in valuesVisited
          THEN CollectIntermediateValues(scc, rest, valuesVisited)
          ELSE CollectIntermediateValues(
                 scc,
                 rest \cup {e.from : e \in {d \in getIncomingEdges(scc, value) :
                                              FollowsEdge(scc, d)}},
                 valuesVisited \cup {value})

\* FetchStartValue taking the PHI's first incoming value, whatever its block.
FetchStartValue_First(incoming, bbs, i) ==
  IF i > Len(incoming) THEN Null ELSE incoming[i].value

\* The first incoming value of the header PHI whose block is outside the
\* loop; Null when there is none (the field is then never assigned).
RECURSIVE FetchStartValue(_, _, _)
FetchStartValue(incoming, bbs, i) ==
  IF i > Len(incoming) THEN Null
  ELSE IF incoming[i].block \notin bbs THEN incoming[i].value
  ELSE FetchStartValue(incoming, bbs, i + 1)

\* The step of the recurrence: the constant of a scConstant step, else null.
FetchStepSize(stepSCEV) ==
  IF stepSCEV.type = "scConstant" THEN <<stepSCEV.value>> ELSE NoStep

InductionVariable(ir, bbs, headerSCEV, headerPHI, incoming, scc) ==
  LET visited == CollectIntermediateValues(scc, {headerPHI}, {})
      phis == {v \in visited : isaPHINode(ir, v)}
      accs == {v \in visited : ~isaPHINode(ir, v) /\ isaInstruction(ir, v)}
  IN [headerPHI |-> headerPHI,
      PHIs |-> phis,
      accumulators |-> accs,
      allInstructions |-> phis \cup accs,
      startValue |-> FetchStartValue(incoming, bbs, 1),
      stepSize |-> FetchStepSize(headerSCEV.step)]

getStepSize(IV) == IV.stepSize

(***************************************************************************)
(* LoopGoverningIVAttribution::LoopGoverningIVAttribution                  *)
(***************************************************************************)
\* The object as the member initialisers leave it.
NewAttribution ==
  [headerBr |-> Null, headerCmp |-> Null, conditionValue |-> Null,
   exitBlock |-> Null, conditionValueDerivation |-> {}, isWellFormed |-> FALSE]

Returned(a) == [outcome |-> "returned", attr |-> a]
Aborted(a) == [outcome |-> "aborted", attr |-> a]

\* ExitBlockFromHeader trying the second successor before the first.
ExitBlockFromHeader_SecondFirst(succ, exitBlockSet) ==
  IF succ[2] \in exitBlockSet THEN succ[2]
  ELSE IF succ[1] \in exitBlockSet THEN succ[1]
  ELSE Null

\* The header branch's successor that is an exit block: the first successor
\* when it is one, else the second when it is one, else none.
ExitBlockFromHeader(succ, exitBlockSet) ==
  IF succ[1] \in exitBlockSet THEN succ[1]
  ELSE IF succ[2] \in exitBlockSet THEN succ[2]
  ELSE Null

\* The values the worklist gains while the producers of one popped value are
\* visited: the loop body inserts each producer into the derivation set and
\* pushes nothing.
PushedProducers(producers) == <<>>

\* The worklist loop over the condition value.  Every result the loop can
\* leave: "done" when the worklist empties, "circular" when a producer is an
\* instruction of the IV (the constructor returns), "aborted" when a producer
\* internal to the SCC is no instruction and assertions are compiled in.  A
\* loop that stops has inserted the producers it visited before the one that
\* stopped it; the order of the incoming edges is the container's.
RECURSIVE DeriveConditionValue(_, _, _, _, _, _)
DeriveConditionValue(ir, scc, ivInstructions, nd, queue, derivation) ==
  IF queue = <<>> THEN {[status |-> "done", derivation |-> derivation]}
  ELSE LET value == Head(queue)
           producers == {e.from : e \in getIncomingEdges(scc, value)}
                          \cap scc.internal
           circular == producers \cap ivInstructions
           failing == IF nd THEN {}
                      ELSE {p \in producers : ~isaInstruction(ir, p)}
           passing == producers \ (circular \cup failing)
       IN IF circular \cup failing # {}
          THEN {[status |-> IF s \in failing THEN "aborted" ELSE "circular",
                 derivation |-> derivation \cup D] :
                   s \in circular \cup failing, D \in SUBSET passing}
          ELSE DeriveConditionValue(ir, scc, ivInstructions, nd,
                                    Tail(queue) \o PushedProducers(producers),
                                    derivation \cup producers)

\* IsAccountedFor letting every comparison pass, not only the header's.
IsAccountedFor_AnyCmp(ir, value, ivInstructions, derivation, headerCmp, headerBr) ==
  /\ isaInstruction(ir, value)
  /\ \/ value \in ivInstructions
     \/ value \in derivation
     \/ IF isaCmpInst(ir, value) THEN TRUE
        ELSE IF isaBranchInst(ir, value)
             THEN value = headerBr \/ ir.kind[value] = "UncondBr"
        ELSE isaGetElementPtrInst(ir, value) \/ isaPHINode(ir, value)

\* One internal node of the SCC in the final scan: TRUE when the scan
\* continues past it, FALSE when the constructor returns on it.
IsAccountedFor(ir, value, ivInstructions, derivation, headerCmp, headerBr) ==
  /\ isaInstruction(ir, value)
  /\ \/ value \in ivInstructions
     \/ value \in derivation
     \/ IF isaCmpInst(ir, value) THEN value = headerCmp
        ELSE IF isaBranchInst(ir, value)
             THEN value = headerBr \/ ir.kind[value] = "UncondBr"
        ELSE isaGetElementPtrInst(ir, value) \/ isaPHINode(ir, value)

\* Every way the constructor can end on (iv, scc, exitBlocks): the object it
\* leaves when it returns, or an abort.  nd is TRUE for a build without
\* assertions (NDEBUG).
LoopGoverningIVAttribution(ir, IV, scc, exitBlocks, nd) ==
  LET headerPHI == IV.headerPHI
      ivInstructions == IV.allInstructions
      headerTerminator == ir.term
      a0 == NewAttribution
  IN
  IF ~isaBranchInst(ir, headerTerminator) THEN {Returned(a0)}
  ELSE
  LET a1 == [a0 EXCEPT !.headerBr = headerTerminator] IN
  \* BranchInst::getCondition on an unconditional branch: the assertion of
  \* the accessor fails; without assertions the operand read is out of
  \* bounds, and the read faults or yields a value that is no CmpInst
  IF ir.kind[headerTerminator] = "UncondBr"
  THEN IF nd THEN {Aborted(a1), Returned(a1)} ELSE {Aborted(a1)}
  ELSE
  LET headerCondition == ir.cond IN
  IF ~isaCmpInst(ir, headerCondition) THEN {Returned(a1)}
  ELSE
  LET a2 == [a1 EXCEPT !.headerCmp = headerCondition]
      opL == ir.ops[1]
      opR == ir.ops[2]
  IN
  IF ~((opL = headerPHI) # (opR = headerPHI)) THEN {Returned(a2)}
  ELSE
  LET conditionValue == IF opL = headerPHI THEN opR ELSE opL
      a3 == [a2 EXCEPT !.conditionValue = conditionValue]
      exitBlock == ExitBlockFromHeader(ir.succ, exitBlocks)
  IN
  IF exitBlock = Null THEN {Returned(a3)}
  ELSE
  LET a4 == [a3 EXCEPT !.exitBlock = exitBlock] IN
  IF isInternal(scc, conditionValue) /\ ~isaInstruction(ir, conditionValue) /\ ~nd
  THEN {Aborted(a4)}
  ELSE
  LET derived == IF isInternal(scc, conditionValue)
                 THEN DeriveConditionValue(ir, scc, ivInstructions, nd,
                                           <<conditionValue>>, {})
                 ELSE {[status |-> "done", derivation |-> {}]}
  IN
  { LET a5 == [a4 EXCEPT !.conditionValueDerivation = d.derivation] IN
    IF d.status = "aborted" THEN Aborted(a5)
    ELSE IF d.status = "circular" THEN Returned(a5)
    ELSE IF \A value \in scc.internal :
              IsAccountedFor(ir, value, ivInstructions, d.derivation,
                             a5.headerCmp, a5.headerBr)
         THEN Returned([a5 EXCEPT !.isWellFormed = TRUE])
         ELSE Returned(a5)
    : d \in derived }

(***************************************************************************)
(* State.                                                                  *)
(***************************************************************************)
VARIABLES
  ir,        \* the loop as the analysis reads it: value shapes, dependences,
             \* the header's terminator, condition, operands and successors
  ndebug,    \* TRUE when the build compiles assertions out
  pc,        \* where the running constructor stands
  iv,        \* the InductionVariable object last constructed
  attr,      \* the LoopGoverningIVAttribution object last constructed
  cur,       \* the header PHI last scanned, as the collaborators describe it
  phiCount,  \* header PHIs scanned so far
  ivHeap,    \* the live InductionVariable objects the maps point to
  loopToIVsMap,
  loopToGoverningIVMap,
  util,      \* the LoopGoverningIVUtility object
  prog,      \* the loop as the transform's operations have rewritten it
  args,      \* the values of the loop's bound, chunk size and chunk stride
  history,   \* the transform's operations applied so far, in order
  run,       \* an execution of the rewritten loop
  m_valid,   \* ThreadSafeQueue::m_valid
  m_queue,   \* ThreadSafeQueue::m_queue
  empty_condition,  \* the threads waiting on empty_condition, not yet notified
  full_condition,   \* the threads waiting on full_condition, not yet notified
  thread,    \* each thread's call in progress and where it stands in it
  ghost,     \* what has happened to the queue so far
  pool       \* the ThreadPool's own fields and where its destruction stands

loopVars == <<prog, args, history, run>>
queueVars == <<m_valid, m_queue, empty_condition, full_condition,
               thread, ghost, pool>>
vars == <<ir, ndebug, pc, iv, attr, cur, phiCount, ivHeap, loopToIVsMap,
          loopToGoverningIVMap, util, loopVars, queueVars>>

\* no operation of a transform has run
NoProg == [cmp |-> <<>>, br |-> <<>>, phi |-> <<>>, chunkPHI |-> <<>>,
           chunkPHIs |-> 0, clones |-> <<>>]
NoArgs == [bound |-> 0, chunkSize |-> 0, chunkStepSize |-> 0]
NoRun == [at |-> "none", i |-> 0, k |-> 0, prev |-> 0, iterations |-> 0]
LoopUntouched ==
  /\ prog = NoProg
  /\ args = NoArgs
  /\ history = <<>>
  /\ run = NoRun

\* no pool exists
NoPool == [pc |-> "none"]

\* no queue and no pool exist
QueueUnused ==
  /\ m_valid = TRUE
  /\ m_queue = <<>>
  /\ empty_condition = {}
  /\ full_condition = {}
  /\ thread = <<>>
  /\ ghost = <<>>
  /\ pool = NoPool

Edge(from, to, data) == [from |-> from, to |-> to, data |-> data]

\* The dependences every modelled loop has: the recurrence phi1 <-> inc, the
\* comparison's use of its operands, the branch's use of the comparison, and
\* the control dependence of the loop body on the header branch.
LoopEdges(ops) ==
  {Edge(PhiNames[i], IncNames[i], TRUE) : i \in 1..MaxPhis}
  \cup {Edge(IncNames[i], PhiNames[i], TRUE) : i \in 1..MaxPhis}
  \cup {Edge("br", IncNames[i], FALSE) : i \in 1..MaxPhis}
  \cup {Edge(ops[1], "cmp", TRUE), Edge(ops[2], "cmp", TRUE),
        Edge("cmp", "br", TRUE)}

NoCur == [phi |-> Null, scev |-> [type |-> "scUnknown"], incoming |-> <<>>]
NoUtil ==
  [nonStrictPredicate |-> Null, flip |-> FALSE,
   doesOriginalCmpInstHaveIVAsLeftOperand |-> FALSE,
   conditionValueOrderedDerivation |-> <<>>]

\* the recurrence {start,+,step} of a header PHI
AddRec(step) == [type |-> "scAddRecExpr", step |-> step]
ConstantStep(n) == [type |-> "scConstant", value |-> n]
Entry(block, value) == [block |-> block, value |-> value]

\* SCCDAG::sccOfValue: the component of a header PHI, over the loop's dependences
sccOfValue(r, phi) == [internal |-> r.internal[phi], edges |-> r.edges]

(***************************************************************************)
(* SpecAttr: the attribution constructor on the loops of AttrLoops.        *)
(***************************************************************************)
\* Dependences a loop may have besides LoopEdges.
AttrOptionalEdges ==
  {Edge("a", "c", TRUE), Edge("b", "a", TRUE), Edge("phi1", "a", TRUE),
   Edge("phi1", "c", TRUE), Edge("x", "inc1", TRUE)}

\* a and b are in the SCC when a dependence of the loop touches them
Touched(edges) == {"a", "b"} \cap ({e.from : e \in edges} \cup {e.to : e \in edges})

AttrLoop(brKind, cmpKind, ops, succ, cKind, cInt, bKind, xKind, xInt, opt) ==
  [kind |-> [v \in Values |->
               CASE v = "c" -> cKind
                 [] v = "b" -> bKind
                 [] v = "x" -> xKind
                 [] v = "cmp" -> cmpKind
                 [] v = "br" -> brKind
                 [] v \in Phis -> "PHI"
                 [] OTHER -> "Inst"],
   edges |-> LoopEdges(ops) \cup opt,
   internal |-> [p \in Phis |->
                  IF p = "phi1"
                  THEN {"phi1", "inc1", "cmp", "br"} \cup Touched(opt)
                         \cup (IF cInt THEN {"c"} ELSE {})
                         \cup (IF xInt THEN {"x"} ELSE {})
                  ELSE {p}],
   term |-> "br", cond |-> "cmp", ops |-> ops, pred |-> "ICMP_NE", succ |-> succ,
   order |-> <<"phi1", "cmp", "br">>,
   exits |-> {"exit", "exit2"}, bbs |-> LoopBlocks]

AttrOperands == {<<"phi1", "c">>, <<"c", "phi1">>, <<"phi1", "phi1">>, <<"c", "c">>}
AttrSuccessors == {<<"body", "exit">>, <<"exit", "body">>, <<"body", "latch">>,
                   <<"exit", "exit2">>}

\* The loops the attribution is run on.  A header that does not end in a
\* conditional branch on a comparison is taken once per shape.
AttrLoops ==
  {AttrLoop(brKind, "Cmp", <<"phi1", "c">>, <<"body", "exit">>, "NonInst", FALSE,
            "Inst", "Inst", FALSE, {}) : brKind \in {"UncondBr", "Term"}}
  \cup
  {AttrLoop("CondBr", "Inst", <<"phi1", "c">>, <<"body", "exit">>, "NonInst", FALSE,
            "Inst", "Inst", FALSE, {})}
  \cup
  {AttrLoop("CondBr", "Cmp", ops, succ, cs[1], cs[2], bKind, xs[1], xs[2], opt) :
     ops \in AttrOperands, succ \in AttrSuccessors,
     cs \in ({"NonInst", "Inst"} \X {FALSE})
              \cup ({"PHI", "GEP", "Inst", "NonInst"} \X {TRUE}),
     bKind \in {"GEP", "Inst"},
     xs \in {<<"Inst", FALSE>>} \cup (Kinds \X {TRUE}),
     opt \in SUBSET AttrOptionalEdges}

\* the IV of phi1 in a loop of AttrLoops: start 0 from the preheader, step 1
AttrIV(r) ==
  InductionVariable(r, r.bbs, AddRec(ConstantStep(1)), "phi1",
                    <<Entry("pre", "start"), Entry("latch", "next")>>,
                    sccOfValue(r, "phi1"))

InitAttr ==
  /\ ir \in AttrLoops
  /\ ndebug \in BOOLEAN
  /\ pc = "attribute"
  /\ iv = AttrIV(ir)
  /\ attr = NewAttribution
  /\ cur = NoCur
  /\ phiCount = 0
  /\ ivHeap = {}
  /\ loopToIVsMap = {}
  /\ loopToGoverningIVMap = Null
  /\ util = NoUtil
  /\ LoopUntouched
  /\ QueueUnused

AttributionOutcomes ==
  LoopGoverningIVAttribution(ir, iv, sccOfValue(ir, iv.headerPHI), ir.exits, ndebug)

\* the constructor runs to its end or to one of its returns
AttributeReturns ==
  /\ pc = "attribute"
  /\ \E o \in AttributionOutcomes :
       /\ o.outcome = "returned"
       /\ attr' = o.attr
  /\ pc' = "returned"
  /\ UNCHANGED <<ir, ndebug, iv, cur, phiCount, ivHeap, loopToIVsMap,
                 loopToGoverningIVMap, util>>
  /\ UNCHANGED <<loopVars, queueVars>>

\* the constructor fails an assertion or faults
AttributeAborts ==
  /\ pc = "attribute"
  /\ \E o \in AttributionOutcomes : o.outcome = "aborted"
  /\ pc' = "aborted"
  /\ UNCHANGED <<ir, ndebug, iv, attr, cur, phiCount, ivHeap, loopToIVsMap,
                 loopToGoverningIVMap, util>>
  /\ UNCHANGED <<loopVars, queueVars>>

NextAttr == AttributeReturns \/ AttributeAborts

SpecAttr == InitAttr /\ [][NextAttr]_vars

(***************************************************************************)
(* Properties of the attribution (checked under SpecAttr).                 *)
(***************************************************************************)
\* the attributed IV's SCC
AttrInternal == ir.internal[iv.headerPHI]

\* the values internal to the SCC that v depends on directly
InternalProducers(v) == {e.from : e \in {d \in ir.edges : d.to = v}} \cap AttrInternal

\* the values internal to the SCC that the values of S depend on, through
\* chains of internal producers of any length
RECURSIVE ProducersClosure(_, _)
ProducersClosure(S, seen) ==
  LET next == UNION {InternalProducers(v) : v \in S} \ seen
  IN IF next = {} THEN seen ELSE ProducersClosure(next, seen \cup next)

TransitiveProducers(v) == ProducersClosure({v}, {})

WellFormed == pc = "returned" /\ attr.isWellFormed

\* C1: a well-formed attribution means every value internal to the IV's SCC
\* is an instruction and is an IV-cycle instruction, a member of the
\* condition derivation, the exit comparison, the exit branch, an
\* unconditional branch, a pointer-address computation or a merge node.
C1_WellFormedOnlyIfAccounted ==
  WellFormed =>
    \A v \in AttrInternal :
      /\ ir.kind[v] # "NonInst"
      /\ \/ v \in iv.allInstructions
         \/ v \in attr.conditionValueDerivation
         \/ v = attr.headerCmp
         \/ v = attr.headerBr
         \/ ir.kind[v] \in {"UncondBr", "GEP", "PHI"}

\* a well-formed attribution whose SCC holds an unconditional branch besides
\* the IV, the derivation, the exit comparison and the exit branch
C1_Witness ==
  /\ WellFormed
  /\ "x" \in AttrInternal /\ ir.kind["x"] = "UncondBr"
  /\ attr.conditionValueDerivation # {}
  /\ "c" \in AttrInternal

C3_DerivationIsTransitive ==
  (WellFormed /\ attr.conditionValue \in AttrInternal) =>
    TransitiveProducers(attr.conditionValue) \subseteq attr.conditionValueDerivation

\* C4 as claimed: when the condition operand transitively depends on an
\* instruction of the IV's cycle, the attribution is not well-formed.
C4_CircularDerivationRejected ==
  (/\ pc = "returned"
   /\ attr.conditionValue \in AttrInternal
   /\ TransitiveProducers(attr.conditionValue) \cap iv.allInstructions # {})
  => ~attr.isWellFormed

\* C5 as claimed: when the header's terminator is no conditional branch, the
\* constructor returns with wellFormed = false.
C5_NoConditionalBranchReturnsFalse ==
  (pc # "attribute" /\ ir.kind[ir.term] # "CondBr") =>
    (pc = "returned" /\ ~attr.isWellFormed)

(***************************************************************************)
(* InductionVariables::InductionVariables on one loop (SpecIVs).           *)
(***************************************************************************)
NoIV ==
  [headerPHI |-> Null, PHIs |-> {}, accumulators |-> {}, allInstructions |-> {},
   startValue |-> Null, stepSize |-> NoStep]

\* The loops the set is built for: the header compares two of phi1, phi2 and
\* the loop-invariant c, and the header PHIs share one SCC or have one each.
IVOperands == {o \in {"phi1", "phi2", "c"} \X {"phi1", "phi2", "c"} : o[1] # o[2]}
IVSuccessors == {<<"body", "exit">>, <<"exit", "body">>, <<"body", "latch">>}

IVLoop(brKind, ops, succ, shared) ==
  [kind |-> [v \in Values |->
               CASE v = "c" -> "NonInst"
                 [] v = "cmp" -> "Cmp"
                 [] v = "br" -> brKind
                 [] v \in Phis -> "PHI"
                 [] OTHER -> "Inst"],
   edges |-> LoopEdges(ops),
   internal |-> [p \in Phis |->
                  IF shared THEN Phis \cup Incs \cup {"cmp", "br"}
                  ELSE {p, IncNames[CHOOSE i \in 1..MaxPhis : PhiNames[i] = p],
                        "cmp", "br"}],
   term |-> "br", cond |-> "cmp", ops |-> ops, pred |-> "ICMP_NE", succ |-> succ,
   order |-> <<"phi1", "cmp", "br">>,
   exits |-> {"exit", "exit2"}, bbs |-> LoopBlocks]

IVLoops ==
  {IVLoop(brKind, ops, succ, shared) :
     brKind \in {"CondBr", "UncondBr"}, ops \in IVOperands,
     succ \in IVSuccessors, shared \in BOOLEAN}

\* What the collaborators say of one header PHI: its SCEV, and its incoming
\* (block, value) pairs in operand order.  A loop header is entered from
\* outside the loop and through a latch.
Steps == {n \in -MaxStep..MaxStep : n # 0}
StepSCEVs == {ConstantStep(n) : n \in Steps}
               \cup {[type |-> "scMulExpr"], [type |-> "scUnknown"]}
Incomings ==
  {<<Entry("pre", "start"), Entry("latch", "next")>>,
   <<Entry("latch", "next"), Entry("pre", "start")>>,
   <<Entry("pre", "start"), Entry("pre2", "start2"), Entry("latch", "next")>>,
   <<Entry("latch", "next"), Entry("pre2", "start2"), Entry("pre", "start")>>}

HeaderPhi(phi, scev, incoming) == [phi |-> phi, scev |-> scev, incoming |-> incoming]

\* the PHIs that can stand next in the header
NextPhis ==
  LET phi == PhiNames[phiCount + 1] IN
  {HeaderPhi(phi, [type |-> "scUnknown"], <<Entry("pre", "start"), Entry("latch", "next")>>)}
  \cup {HeaderPhi(phi, AddRec(st), inc) : st \in StepSCEVs, inc \in Incomings}

\* the IV object built for header PHI p
NewIV(p) ==
  InductionVariable(ir, ir.bbs, p.scev, p.phi, p.incoming, sccOfValue(ir, p.phi))

\* IsDiscarded keeping every IV.
IsDiscarded_Never(IV) == FALSE

\* the test that deletes an IV right after its construction
IsDiscarded(IV) == getStepSize(IV) = NoStep

\* IVsAfterScan inserting the IV before the step is tested.
IVsAfterScan_InsertFirst(ivs, IV) == ivs \cup {IV.headerPHI}

\* loopToIVsMap[loop] after the scan of one PHI whose IV is IV
IVsAfterScan(ivs, IV) ==
  IF IsDiscarded(IV) THEN ivs ELSE ivs \cup {IV.headerPHI}

\* GoverningAfterScan keeping the first IV registered.
GoverningAfterScan_KeepFirst(governing, phi, attribution) ==
  IF attribution.isWellFormed /\ governing = Null THEN phi ELSE governing

\* loopToGoverningIVMap[loop] after the attribution of the IV of header PHI phi
GoverningAfterScan(governing, phi, attribution) ==
  IF attribution.isWellFormed THEN phi ELSE governing

\* the object the maps point to
Allocated(IV) == [headerPHI |-> IV.headerPHI, stepSize |-> IV.stepSize]

InitIVs ==
  /\ ir \in IVLoops
  /\ ndebug \in BOOLEAN
  /\ pc = "scan"
  /\ iv = NoIV
  /\ attr = NewAttribution
  /\ cur = NoCur
  /\ phiCount = 0
  /\ ivHeap = {}
  /\ loopToIVsMap = {}
  /\ loopToGoverningIVMap = Null
  /\ util = NoUtil
  /\ LoopUntouched
  /\ QueueUnused

Scanning == pc = "scan" /\ phiCount < MaxPhis

\* a header PHI that is no affine recurrence: continue
SkipPHI ==
  /\ Scanning
  /\ \E p \in NextPhis :
       /\ p.scev.type # "scAddRecExpr"
       /\ cur' = p
  /\ phiCount' = phiCount + 1
  /\ UNCHANGED <<ir, ndebug, pc, iv, attr, ivHeap, loopToIVsMap,
                 loopToGoverningIVMap, util>>
  /\ UNCHANGED <<loopVars, queueVars>>

\* an affine recurrence whose IV has no constant step: delete, continue
DiscardIV ==
  /\ Scanning
  /\ \E p \in NextPhis :
       /\ p.scev.type = "scAddRecExpr"
       /\ IsDiscarded(NewIV(p))
       /\ cur' = p
       /\ iv' = NewIV(p)
       /\ loopToIVsMap' = IVsAfterScan(loopToIVsMap, NewIV(p))
       /\ ivHeap' = (ivHeap \cup {Allocated(NewIV(p))}) \ {Allocated(NewIV(p))}
  /\ phiCount' = phiCount + 1
  /\ UNCHANGED <<ir, ndebug, pc, attr, loopToGoverningIVMap, util>>
  /\ UNCHANGED <<loopVars, queueVars>>

\* an IV with a constant step: insert it, attribute it, and register it as
\* the loop's governing IV when the attribution is well-formed
RegisterIV ==
  /\ Scanning
  /\ \E p \in NextPhis :
       /\ p.scev.type = "scAddRecExpr"
       /\ ~IsDiscarded(NewIV(p))
       /\ \E o \in LoopGoverningIVAttribution(ir, NewIV(p), sccOfValue(ir, p.phi),
                                              ir.exits, ndebug) :
            /\ o.outcome = "returned"
            /\ attr' = o.attr
            /\ loopToGoverningIVMap' =
                 GoverningAfterScan(loopToGoverningIVMap, p.phi, o.attr)
       /\ cur' = p
       /\ iv' = NewIV(p)
       /\ loopToIVsMap' = IVsAfterScan(loopToIVsMap, NewIV(p))
       /\ ivHeap' = ivHeap \cup {Allocated(NewIV(p))}
  /\ phiCount' = phiCount + 1
  /\ UNCHANGED <<ir, ndebug, pc, util>>
  /\ UNCHANGED <<loopVars, queueVars>>

\* the attribution of an inserted IV aborts
ScanAborts ==
  /\ Scanning
  /\ \E p \in NextPhis :
       /\ p.scev.type = "scAddRecExpr"
       /\ ~IsDiscarded(NewIV(p))
       /\ \E o \in LoopGoverningIVAttribution(ir, NewIV(p), sccOfValue(ir, p.phi),
                                              ir.exits, ndebug) :
            o.outcome = "aborted"
       /\ cur' = p
       /\ iv' = NewIV(p)
       /\ loopToIVsMap' = IVsAfterScan(loopToIVsMap, NewIV(p))
       /\ ivHeap' = ivHeap \cup {Allocated(NewIV(p))}
  /\ phiCount' = phiCount + 1
  /\ pc' = "aborted"
  /\ UNCHANGED <<ir, ndebug, attr, loopToGoverningIVMap, util>>
  /\ UNCHANGED <<loopVars, queueVars>>

\* the header has no further PHI
FinishScan ==
  /\ pc = "scan"
  /\ pc' = "done"
  /\ UNCHANGED <<ir, ndebug, iv, attr, cur, phiCount, ivHeap, loopToIVsMap,
                 loopToGoverningIVMap, util>>
  /\ UNCHANGED <<loopVars, queueVars>>

NextIVs == SkipPHI \/ DiscardIV \/ RegisterIV \/ ScanAborts \/ FinishScan

SpecIVs == InitIVs /\ [][NextIVs]_vars

\* InductionVariables::getInductionVariables
getInductionVariables == loopToIVsMap
\* InductionVariables::getLoopGoverningInductionVariable
getLoopGoverningInductionVariable == loopToGoverningIVMap

(***************************************************************************)
(* Properties of the IV set (checked under SpecIVs).                       *)
(***************************************************************************)
\* the PHI last scanned is an affine recurrence: an IV was constructed for it
Recognized == cur.phi # Null /\ cur.scev.type = "scAddRecExpr"
\* ... and its step is no literal constant
AbsentStep == Recognized /\ cur.scev.step.type # "scConstant"
\* the positions of the PHI's incoming edges from outside the loop
ExternalEdges == {i \in DOMAIN cur.incoming : cur.incoming[i].block \notin ir.bbs}

\* C6: the loop's governing IV is none or a live IV with a constant step; an
\* IV whose step is absent is not the governing IV.
C6_GoverningHasConstantStep ==
  /\ getLoopGoverningInductionVariable # Null =>
       \E o \in ivHeap : /\ o.headerPHI = getLoopGoverningInductionVariable
                         /\ o.stepSize # NoStep
  /\ AbsentStep => getLoopGoverningInductionVariable # cur.phi

\* the scan ended on a recurrence with absent step in a loop that has a
\* governing IV
C6_Witness ==
  /\ pc = "done" /\ AbsentStep
  /\ getLoopGoverningInductionVariable # Null
  /\ iv.headerPHI = cur.phi /\ iv.stepSize = NoStep

\* C7 as claimed: an IV with absent step is excluded from governance and is a
\* member of the loop's IV set.
C7_AbsentStepRetained ==
  AbsentStep => /\ getLoopGoverningInductionVariable # cur.phi
                /\ cur.phi \in getInductionVariables

\* C7 amended: an IV with absent step is excluded from governance and is not
\* a member of the loop's IV set: it is deleted when its step is found absent.
C7_AbsentStepDiscarded ==
  AbsentStep => /\ getLoopGoverningInductionVariable # cur.phi
                /\ cur.phi \notin getInductionVariables
                /\ \A o \in ivHeap : o.headerPHI # cur.phi

\* a recurrence with absent step was scanned after an IV that stays in the set
C7_Witness ==
  /\ AbsentStep /\ iv.headerPHI = cur.phi
  /\ getInductionVariables # {}
  /\ phiCount > 1

\* C8: the header PHI of a constructed IV is one of its instructions, and its
\* start value is an incoming value of the header PHI whose block is outside
\* the loop.
C8_HeaderInCycleStartOutside ==
  Recognized =>
    /\ iv.headerPHI = cur.phi
    /\ cur.phi \in iv.allInstructions
    /\ cur.phi \in iv.PHIs
    /\ \E i \in ExternalEdges : cur.incoming[i].value = iv.startValue

\* an IV whose header PHI lists the latch edge before the entering edge
C8_Witness ==
  /\ Recognized
  /\ cur.incoming[1].block \in ir.bbs
  /\ iv.startValue = "start"

\* C9 as claimed: for a header PHI with more than one incoming edge from
\* outside the loop no IV is produced with one of the external values as its
\* start value.
C9_MultipleExternalEdgesFail ==
  (Recognized /\ Cardinality(ExternalEdges) > 1) =>
    ~(iv.headerPHI = cur.phi /\ iv.startValue # Null)

\* the IV built for header PHI phi stays in the loop's IV set and its
\* attribution is well-formed
Passed(phi) ==
  \E o \in ivHeap :
    /\ o.headerPHI = phi
    /\ o.stepSize # NoStep
    /\ \E a \in LoopGoverningIVAttribution(
                  ir,
                  InductionVariable(ir, ir.bbs, AddRec(ConstantStep(o.stepSize[1])),
                                    phi, <<Entry("pre", "start"), Entry("latch", "next")>>,
                                    sccOfValue(ir, phi)),
                  sccOfValue(ir, phi), ir.exits, ndebug) :
         a.outcome = "returned" /\ a.attr.isWellFormed

\* the positions in the header of the PHIs scanned so far that passed
Passers == {i \in 1..phiCount : Passed(PhiNames[i])}
LastPasser == CHOOSE i \in Passers : \A j \in Passers : j <= i

\* C23: a loop has at most one governing IV, which is a member of the loop's
\* IV set; it is the IV of the last header PHI, in header order, whose
\* attribution is well-formed, and there is none when no PHI passed.
C23_LastPasserGoverns ==
  pc # "aborted" =>
    /\ getLoopGoverningInductionVariable \in Phis \cup {Null}
    /\ getLoopGoverningInductionVariable # Null =>
         getLoopGoverningInductionVariable \in getInductionVariables
    /\ IF Passers = {} THEN getLoopGoverningInductionVariable = Null
       ELSE getLoopGoverningInductionVariable = PhiNames[LastPasser]

\* two header PHIs passed attribution and the second is registered
C23_Witness ==
  /\ pc = "done"
  /\ {1, 2} \subseteq Passers
  /\ getLoopGoverningInductionVariable = PhiNames[2]

(***************************************************************************)
(* LoopGoverningIVUtility::LoopGoverningIVUtility (SpecXform).             *)
(***************************************************************************)
ICmpPredicates ==
  {"ICMP_EQ", "ICMP_NE", "ICMP_UGT", "ICMP_UGE", "ICMP_ULT", "ICMP_ULE",
   "ICMP_SGT", "ICMP_SGE", "ICMP_SLT", "ICMP_SLE"}

\* CmpInst::getInversePredicate: the predicate true exactly when p is false
getInversePredicate(p) ==
  CASE p = "ICMP_EQ" -> "ICMP_NE"
    [] p = "ICMP_NE" -> "ICMP_EQ"
    [] p = "ICMP_UGT" -> "ICMP_ULE"
    [] p = "ICMP_ULE" -> "ICMP_UGT"
    [] p = "ICMP_UGE" -> "ICMP_ULT"
    [] p = "ICMP_ULT" -> "ICMP_UGE"
    [] p = "ICMP_SGT" -> "ICMP_SLE"
    [] p = "ICMP_SLE" -> "ICMP_SGT"
    [] p = "ICMP_SGE" -> "ICMP_SLT"
    [] p = "ICMP_SLT" -> "ICMP_SGE"

\* CmpInst::getSwappedPredicate: the predicate of the swapped operands
getSwappedPredicate(p) ==
  CASE p = "ICMP_EQ" -> "ICMP_EQ"
    [] p = "ICMP_NE" -> "ICMP_NE"
    [] p = "ICMP_UGT" -> "ICMP_ULT"
    [] p = "ICMP_ULT" -> "ICMP_UGT"
    [] p = "ICMP_UGE" -> "ICMP_ULE"
    [] p = "ICMP_ULE" -> "ICMP_UGE"
    [] p = "ICMP_SGT" -> "ICMP_SLT"
    [] p = "ICMP_SLT" -> "ICMP_SGT"
    [] p = "ICMP_SGE" -> "ICMP_SLE"
    [] p = "ICMP_SLE" -> "ICMP_SGE"

\* APInt::isStrictlyPositive
isStrictlyPositive(n) == n > 0

\* the comparison's predicate in the frame "exits on true, IV on the left"
ExitPredicate(pred, conditionExitsOnTrue, ivIsLeft) ==
  LET exitPredicate == IF conditionExitsOnTrue THEN pred
                       ELSE getInversePredicate(pred)
  IN IF ivIsLeft THEN exitPredicate ELSE getSwappedPredicate(exitPredicate)

\* AssertedSign with the two assertions exchanged.
AssertedSign_Exchanged(exitPredicate) ==
  CASE exitPredicate \in {"ICMP_SLE", "ICMP_SLT", "ICMP_ULT", "ICMP_ULE"} -> "positive"
    [] exitPredicate \in {"ICMP_UGT", "ICMP_UGE", "ICMP_SGT", "ICMP_SGE"} -> "notPositive"
    [] OTHER -> "any"

\* the step sign the switch asserts for a predicate: "any" when it asserts none
AssertedSign(exitPredicate) ==
  CASE exitPredicate \in {"ICMP_SLE", "ICMP_SLT", "ICMP_ULT", "ICMP_ULE"} -> "notPositive"
    [] exitPredicate \in {"ICMP_UGT", "ICMP_UGE", "ICMP_SGT", "ICMP_SGE"} -> "positive"
    [] OTHER -> "any"

\* NonStrictPredicate leaving every predicate, equality included, as it is
NonStrictPredicate_KeepsEquality(exitPredicate, isStepValuePositive) == exitPredicate

\* NonStrictPredicate widening equality against the step's direction.
NonStrictPredicate_WrongDirection(exitPredicate, isStepValuePositive) ==
  IF exitPredicate = "ICMP_EQ"
  THEN (IF isStepValuePositive THEN "ICMP_ULE" ELSE "ICMP_UGE")
  ELSE exitPredicate

\* the switch over the exit predicate: equality is widened, the rest kept
NonStrictPredicate(exitPredicate, isStepValuePositive) ==
  IF exitPredicate = "ICMP_EQ"
  THEN (IF isStepValuePositive THEN "ICMP_UGE" ELSE "ICMP_ULE")
  ELSE exitPredicate

\* the instructions of the comparison's block that are in the derivation, in
\* block order
OrderedDerivation(order, derivation) ==
  LET InDerivation(I) == I \in derivation IN SelectSeq(order, InDerivation)

\* Every way the constructor can end: the object it leaves, or an abort on a
\* failed assertion.
LoopGoverningIVUtility(r, IV, attribution, nd) ==
  LET condition == attribution.headerCmp
      ivIsLeft == r.ops[1] = IV.headerPHI
      step == getStepSize(IV)
  IN
  IF step = NoStep THEN {[outcome |-> "aborted", util |-> NoUtil]}
  ELSE
  LET isStepValuePositive == isStrictlyPositive(step[1])
      conditionExitsOnTrue == r.succ[1] = attribution.exitBlock
      exitPredicate == ExitPredicate(r.pred, conditionExitsOnTrue, ivIsLeft)
      asserted == AssertedSign(exitPredicate)
      assertionHolds == \/ asserted = "any"
                        \/ asserted = "positive" /\ isStepValuePositive
                        \/ asserted = "notPositive" /\ ~isStepValuePositive
      u == [nonStrictPredicate |-> NonStrictPredicate(exitPredicate, isStepValuePositive),
            flip |-> ~ivIsLeft,
            doesOriginalCmpInstHaveIVAsLeftOperand |-> ivIsLeft,
            conditionValueOrderedDerivation |->
              OrderedDerivation(r.order, attribution.conditionValueDerivation)]
  IN IF assertionHolds \/ nd
     THEN {[outcome |-> "returned", util |-> u]}
     ELSE {[outcome |-> "aborted", util |-> NoUtil]}

\* The loops a transform is derived for: one IV compared with a loop
\* invariant in the header, every predicate, operand order and polarity.
XformLoop(pred, ops, succ) ==
  [kind |-> [v \in Values |->
               CASE v = "c" -> "NonInst"
                 [] v = "cmp" -> "Cmp"
                 [] v = "br" -> "CondBr"
                 [] v \in Phis -> "PHI"
                 [] OTHER -> "Inst"],
   edges |-> LoopEdges(ops),
   internal |-> [p \in Phis |-> IF p = "phi1" THEN {"phi1", "inc1", "cmp", "br"}
                                ELSE {p}],
   term |-> "br", cond |-> "cmp", ops |-> ops, pred |-> pred, succ |-> succ,
   order |-> <<"phi1", "cmp", "br">>,
   exits |-> {"exit", "exit2"}, bbs |-> LoopBlocks]

XformLoops ==
  {XformLoop(pred, ops, succ) :
     pred \in ICmpPredicates,
     ops \in {<<"phi1", "c">>, <<"c", "phi1">>},
     succ \in {<<"body", "exit">>, <<"exit", "body">>}}

\* the loop's governing IV, with constant step n and start value "start"
XformIV(r, n) ==
  InductionVariable(r, r.bbs, AddRec(ConstantStep(n)), "phi1",
                    <<Entry("pre", "start"), Entry("latch", "next")>>,
                    sccOfValue(r, "phi1"))

InitXform ==
  /\ ir \in XformLoops
  /\ ndebug \in BOOLEAN
  /\ pc = "derive"
  /\ \E n \in Steps : iv = XformIV(ir, n)
  /\ \E o \in LoopGoverningIVAttribution(ir, iv, sccOfValue(ir, "phi1"),
                                         ir.exits, ndebug) :
       /\ o.outcome = "returned"
       /\ o.attr.isWellFormed
       /\ attr = o.attr
  /\ cur = NoCur
  /\ phiCount = 0
  /\ ivHeap = {}
  /\ loopToIVsMap = {}
  /\ loopToGoverningIVMap = "phi1"
  /\ util = NoUtil
  /\ LoopUntouched
  /\ QueueUnused

UtilityOutcomes == LoopGoverningIVUtility(ir, iv, attr, ndebug)

\* the constructor returns the derived transform
DeriveTransform ==
  /\ pc = "derive"
  /\ \E o \in UtilityOutcomes :
       /\ o.outcome = "returned"
       /\ util' = o.util
  /\ pc' = "derived"
  /\ UNCHANGED <<ir, ndebug, iv, attr, cur, phiCount, ivHeap, loopToIVsMap,
                 loopToGoverningIVMap>>
  /\ UNCHANGED <<loopVars, queueVars>>

\* an assertion of the constructor fails
DeriveAborts ==
  /\ pc = "derive"
  /\ \E o \in UtilityOutcomes : o.outcome = "aborted"
  /\ pc' = "aborted"
  /\ UNCHANGED <<ir, ndebug, iv, attr, cur, phiCount, ivHeap, loopToIVsMap,
                 loopToGoverningIVMap, util>>
  /\ UNCHANGED <<loopVars, queueVars>>

NextXform == DeriveTransform \/ DeriveAborts

SpecXform == InitXform /\ [][NextXform]_vars

(***************************************************************************)
(* Properties of the derived transform (checked under SpecXform).          *)
(***************************************************************************)
\* Integer comparison of two Bits-wide words, as icmp evaluates it.
Bits == 4
Word == 0..(2^Bits - 1)
Signed(x) == IF x >= 2^(Bits - 1) THEN x - 2^Bits ELSE x

Holds(pred, x, y) ==
  CASE pred = "ICMP_EQ" -> x = y
    [] pred = "ICMP_NE" -> x # y
    [] pred = "ICMP_UGT" -> x > y
    [] pred = "ICMP_UGE" -> x >= y
    [] pred = "ICMP_ULT" -> x < y
    [] pred = "ICMP_ULE" -> x <= y
    [] pred = "ICMP_SGT" -> Signed(x) > Signed(y)
    [] pred = "ICMP_SGE" -> Signed(x) >= Signed(y)
    [] pred = "ICMP_SLT" -> Signed(x) < Signed(y)
    [] pred = "ICMP_SLE" -> Signed(x) <= Signed(y)

\* the header of the loop as written leaves the loop when the IV is i and the
\* value it is compared with is n
OriginalExits(i, n) ==
  LET taken == IF ir.ops[1] = iv.headerPHI THEN Holds(ir.pred, i, n)
               ELSE Holds(ir.pred, n, i)
  IN IF taken THEN ir.succ[1] = attr.exitBlock ELSE ir.succ[2] = attr.exitBlock

\* the exit test is an equality test of the IV against the other operand
ExitTestIsEquality == \A i \in Word, n \in Word : OriginalExits(i, n) <=> (i = n)

\* C10: when the exit test, whatever polarity and operand order it is written
\* in, is an equality test of the IV, the normalized predicate is
\* greater-or-equal for a strictly positive step and less-or-equal for a
\* negative one; the loop for (i = 0; i != 10; i++) normalizes to i >= 10.
C10_EqualityWidenedByStepSign ==
  /\ (pc = "derived" /\ ExitTestIsEquality) =>
       util.nonStrictPredicate =
         (IF iv.stepSize[1] > 0 THEN "ICMP_UGE" ELSE "ICMP_ULE")
  /\ (/\ pc = "derived"
      /\ ir.pred = "ICMP_NE" /\ ir.ops = <<"phi1", "c">>
      /\ ir.succ = <<"body", "exit">> /\ iv.stepSize = <<1>>)
     => util.nonStrictPredicate = "ICMP_UGE"

\* a negative-step loop written "c != i" that continues on the branch's first
\* successor has been given less-or-equal
C10_Witness ==
  /\ pc = "derived"
  /\ ExitTestIsEquality
  /\ ir.pred = "ICMP_NE" /\ ir.ops = <<"c", "phi1">> /\ ir.succ = <<"body", "exit">>
  /\ iv.stepSize[1] < 0
  /\ util.nonStrictPredicate = "ICMP_ULE"

\* the predicate q for which the header as written leaves the loop exactly
\* when "IV q other operand" holds: the exit test in the frame "exits on
\* true, IV on the left"
FramePredicate ==
  CHOOSE q \in ICmpPredicates :
    \A i \in Word, n \in Word : OriginalExits(i, n) <=> Holds(q, i, n)

LessFamily == {"ICMP_ULT", "ICMP_ULE", "ICMP_SLT", "ICMP_SLE"}
GreaterFamily == {"ICMP_UGT", "ICMP_UGE", "ICMP_SGT", "ICMP_SGE"}

\* the step's sign contradicts the direction of the exit test
SignMismatch ==
  \/ FramePredicate \in LessFamily /\ iv.stepSize[1] > 0
  \/ FramePredicate \in GreaterFamily /\ ~(iv.stepSize[1] > 0)

MaxOps == 2     \* operations applied to one loop
MaxChunk == 4   \* largest chunk size
MaxIter == 7    \* back edges one execution takes

\* the values of the rewritten loop, as terms over its PHIs and arguments
Named(n) == <<"value", n>>
ConstantInt(n) == <<"const", n>>
PHI(n) == <<"phi", n>>
\* the n-th PHI created as a chunk counter
ChunkPHI(n) == <<"chunkPHI", n>>
CreateAdd(a, b) == <<"add", a, b>>
CreateICmp(p, a, b) == <<"icmp", p, a, b>>
CreateSelect(c, t, f) == <<"select", c, t, f>>
isaSelectInst(v) == v[1] = "select"
SelectCondition(select) == select[2]

\* PHINode::getBasicBlockIndex, 0 standing for -1
getBasicBlockIndex(phi, B) ==
  IF \E i \in 1..Len(phi) : phi[i].block = B
  THEN CHOOSE i \in 1..Len(phi) :
         /\ phi[i].block = B
         /\ \A j \in 1..(i - 1) : phi[j].block # B
  ELSE 0

\* the header's predecessors: the blocks the governing PHI has an entry for
HeaderPreds(P) == [i \in 1..Len(P.phi) |-> P.phi[i].block]

\* createChunkPHI with the select's arms exchanged
createChunkPHI_NoWrap(chunkPHI, preheaderB, headerPreds, chunkSize) ==
  LET zeroValueForChunking == ConstantInt(0)
      onesValueForChunking == ConstantInt(1)
      chunkIncrement == CreateAdd(chunkPHI, onesValueForChunking)
      isChunkCompleted == CreateICmp("ICMP_EQ", chunkIncrement, chunkSize)
      chunkWrap == CreateSelect(isChunkCompleted, chunkIncrement,
                                zeroValueForChunking)
  IN [i \in 1..Len(headerPreds) |->
        IF preheaderB = headerPreds[i]
        THEN Entry(headerPreds[i], zeroValueForChunking)
        ELSE Entry(headerPreds[i], chunkWrap)]

\* the incoming values of the PHI createChunkPHI creates as chunkPHI and returns
createChunkPHI(chunkPHI, preheaderB, headerPreds, chunkSize) ==
  LET zeroValueForChunking == ConstantInt(0)
      onesValueForChunking == ConstantInt(1)
      chunkIncrement == CreateAdd(chunkPHI, onesValueForChunking)
      isChunkCompleted == CreateICmp("ICMP_EQ", chunkIncrement, chunkSize)
      chunkWrap == CreateSelect(isChunkCompleted, zeroValueForChunking,
                                chunkIncrement)
  IN [i \in 1..Len(headerPreds) |->
        IF preheaderB = headerPreds[i]
        THEN Entry(headerPreds[i], zeroValueForChunking)
        ELSE Entry(headerPreds[i], chunkWrap)]

\* chunkLoopGoverningPHI adding the stride on the other arm
chunkLoopGoverningPHI_OtherArm(preheaderBlock, loopGoverningPHI, chunkPHI, chunkStepSize) ==
  LET edges == {i \in 1..Len(loopGoverningPHI) :
                  loopGoverningPHI[i].block # preheaderBlock}
      idx(i) == getBasicBlockIndex(chunkPHI, loopGoverningPHI[i].block)
      readable(i) == idx(i) # 0 /\ isaSelectInst(chunkPHI[idx(i)].value)
  IN IF \E i \in edges : ~readable(i)
     THEN {[outcome |-> "crashed", phi |-> loopGoverningPHI]}
     ELSE {[outcome |-> "returned",
            phi |-> [i \in 1..Len(loopGoverningPHI) |->
                       IF i \in edges
                       THEN Entry(loopGoverningPHI[i].block,
                              CreateSelect(
                                SelectCondition(chunkPHI[idx(i)].value),
                                loopGoverningPHI[i].value,
                                CreateAdd(loopGoverningPHI[i].value,
                                          chunkStepSize)))
                       ELSE loopGoverningPHI[i]]]}

\* chunkLoopGoverningPHI adding the stride to the PHI, not to its incoming value
chunkLoopGoverningPHI_FromPHI(preheaderBlock, loopGoverningPHI, chunkPHI, chunkStepSize) ==
  LET edges == {i \in 1..Len(loopGoverningPHI) :
                  loopGoverningPHI[i].block # preheaderBlock}
      idx(i) == getBasicBlockIndex(chunkPHI, loopGoverningPHI[i].block)
      readable(i) == idx(i) # 0 /\ isaSelectInst(chunkPHI[idx(i)].value)
  IN IF \E i \in edges : ~readable(i)
     THEN {[outcome |-> "crashed", phi |-> loopGoverningPHI]}
     ELSE {[outcome |-> "returned",
            phi |-> [i \in 1..Len(loopGoverningPHI) |->
                       IF i \in edges
                       THEN Entry(loopGoverningPHI[i].block,
                              CreateSelect(
                                SelectCondition(chunkPHI[idx(i)].value),
                                CreateAdd(PHI("phi1"), chunkStepSize),
                                loopGoverningPHI[i].value))
                       ELSE loopGoverningPHI[i]]]}

\* chunkLoopGoverningPHI: the governing PHI's incoming values afterwards, or
\* a crash when an edge's chunk-counter value cannot be read as a select
\* (there is no chunk PHI, it has no entry for the edge's block, or its entry
\* is no select)
chunkLoopGoverningPHI(preheaderBlock, loopGoverningPHI, chunkPHI, chunkStepSize) ==
  LET edges == {i \in 1..Len(loopGoverningPHI) :
                  loopGoverningPHI[i].block # preheaderBlock}
      idx(i) == getBasicBlockIndex(chunkPHI, loopGoverningPHI[i].block)
      readable(i) == idx(i) # 0 /\ isaSelectInst(chunkPHI[idx(i)].value)
  IN IF \E i \in edges : ~readable(i)
     THEN {[outcome |-> "crashed", phi |-> loopGoverningPHI]}
     ELSE {[outcome |-> "returned",
            phi |-> [i \in 1..Len(loopGoverningPHI) |->
                       IF i \in edges
                       THEN Entry(loopGoverningPHI[i].block,
                              CreateSelect(
                                SelectCondition(chunkPHI[idx(i)].value),
                                CreateAdd(loopGoverningPHI[i].value,
                                          chunkStepSize),
                                loopGoverningPHI[i].value))
                       ELSE loopGoverningPHI[i]]]}

\* updateConditionAndBranchToCatchIteratingPastExitValue leaving the operands
\* in their original order
updateConditionAndBranch_OperandsKept(u, cmpToUpdate, branchInst, exitBlock) ==
  [cmp |-> [pred |-> u.nonStrictPredicate, ops |-> cmpToUpdate.ops],
   br |-> IF branchInst[1] # exitBlock
          THEN <<exitBlock, branchInst[1]>>
          ELSE branchInst]

\* updateConditionAndBranchToCatchIteratingPastExitValue on a comparison and
\* a branch
updateConditionAndBranchToCatchIteratingPastExitValue(u, cmpToUpdate, branchInst, exitBlock) ==
  [cmp |-> [pred |-> u.nonStrictPredicate,
            ops |-> IF u.flip
                    THEN <<cmpToUpdate.ops[2], cmpToUpdate.ops[1]>>
                    ELSE cmpToUpdate.ops],
   br |-> IF branchInst[1] # exitBlock
          THEN <<exitBlock, branchInst[1]>>
          ELSE branchInst]

\* the comparison and branch cloneConditionalCheckFor creates
cloneConditionalCheckFor(u, recurrenceOfIV, clonedCompareValue, continueBlock, exitBlock) ==
  [cmp |-> [pred |-> u.nonStrictPredicate,
            ops |-> <<recurrenceOfIV, clonedCompareValue>>],
   br |-> <<exitBlock, continueBlock>>]

Operations ==
  {"createChunkPHI", "chunkLoopGoverningPHI",
   "updateConditionAndBranchToCatchIteratingPastExitValue",
   "cloneConditionalCheckFor"}

\* Operation with cloneConditionalCheckFor copying the header's comparison and
\* branch as they are
Operation_CloneOfHeaderCmp(op, P, u, exitBlock) ==
  CASE op = "createChunkPHI" ->
         {[outcome |-> "returned",
           prog |-> [P EXCEPT !.chunkPHIs = @ + 1,
                              !.chunkPHI =
                                createChunkPHI(ChunkPHI(P.chunkPHIs + 1), "pre",
                                               HeaderPreds(P),
                                               Named("chunkSize"))]]}
    [] op = "chunkLoopGoverningPHI" ->
         {[outcome |-> o.outcome, prog |-> [P EXCEPT !.phi = o.phi]] :
            o \in chunkLoopGoverningPHI("pre", P.phi, P.chunkPHI,
                                        Named("chunkStepSize"))}
    [] op = "updateConditionAndBranchToCatchIteratingPastExitValue" ->
         LET g == updateConditionAndBranchToCatchIteratingPastExitValue(
                    u, P.cmp, P.br, exitBlock)
         IN {[outcome |-> "returned",
              prog |-> [P EXCEPT !.cmp = g.cmp, !.br = g.br]]}
    [] op = "cloneConditionalCheckFor" ->
         {[outcome |-> "returned",
           prog |-> [P EXCEPT !.clones =
                       Append(@, [cmp |-> P.cmp, br |-> P.br])]]}

\* Every way one operation can end on the loop P: the loop it leaves, or a
\* crash.  The caller passes the loop's preheader, header comparison, header
\* branch and exit block, the chunk PHI createChunkPHI last returned (none
\* when it has not run), and clones the check of the governing PHI against
\* the bound.
Operation(op, P, u, exitBlock) ==
  CASE op = "createChunkPHI" ->
         {[outcome |-> "returned",
           prog |-> [P EXCEPT !.chunkPHIs = @ + 1,
                              !.chunkPHI =
                                createChunkPHI(ChunkPHI(P.chunkPHIs + 1), "pre",
                                               HeaderPreds(P),
                                               Named("chunkSize"))]]}
    [] op = "chunkLoopGoverningPHI" ->
         {[outcome |-> o.outcome, prog |-> [P EXCEPT !.phi = o.phi]] :
            o \in chunkLoopGoverningPHI("pre", P.phi, P.chunkPHI,
                                        Named("chunkStepSize"))}
    [] op = "updateConditionAndBranchToCatchIteratingPastExitValue" ->
         LET g == updateConditionAndBranchToCatchIteratingPastExitValue(
                    u, P.cmp, P.br, exitBlock)
         IN {[outcome |-> "returned",
              prog |-> [P EXCEPT !.cmp = g.cmp, !.br = g.br]]}
    [] op = "cloneConditionalCheckFor" ->
         {[outcome |-> "returned",
           prog |-> [P EXCEPT !.clones =
                       Append(@, cloneConditionalCheckFor(
                                   u, PHI("phi1"), Named("c"), "body",
                                   exitBlock))]]}

\* the loop for (i = 0; i <pred> c; i += n) as a program: the header's
\* comparison and branch and the governing PHI's incoming values
Term(v) == IF v \in Phis THEN PHI(v) ELSE Named(v)
ProgIncomings(n) ==
  LET next == CreateAdd(PHI("phi1"), ConstantInt(n)) IN
  {<<Entry("pre", ConstantInt(0)), Entry("latch", next)>>,
   <<Entry("latch", next), Entry("pre", ConstantInt(0))>>,
   <<Entry("pre", ConstantInt(0)), Entry("latch", next),
     Entry("latch2", next)>>}
Program(r, incoming) ==
  [cmp |-> [pred |-> r.pred, ops |-> <<Term(r.ops[1]), Term(r.ops[2])>>],
   br |-> r.succ,
   phi |-> incoming,
   chunkPHI |-> <<>>,
   chunkPHIs |-> 0,
   clones |-> <<>>]

\* the values the loop's arguments take when it runs
LoopBounds == {10}
ChunkStrides == {4}
LoopArgs ==
  [bound : LoopBounds, chunkSize : 1..MaxChunk, chunkStepSize : ChunkStrides]

InitMutate ==
  /\ ir \in XformLoops
  /\ ndebug \in BOOLEAN
  /\ pc = "derive"
  /\ \E n \in Steps : iv = XformIV(ir, n)
  /\ \E o \in LoopGoverningIVAttribution(ir, iv, sccOfValue(ir, "phi1"),
                                         ir.exits, ndebug) :
       /\ o.outcome = "returned"
       /\ o.attr.isWellFormed
       /\ attr = o.attr
  /\ cur = NoCur
  /\ phiCount = 0
  /\ ivHeap = {}
  /\ loopToIVsMap = {}
  /\ loopToGoverningIVMap = "phi1"
  /\ util = NoUtil
  /\ \E incoming \in ProgIncomings(iv.stepSize[1]) :
       prog = Program(ir, incoming)
  /\ args \in LoopArgs
  /\ history = <<>>
  /\ run = NoRun
  /\ QueueUnused

\* an operation may be applied: the transform is derived, the loop is not
\* running
Mutable == pc = "derived" /\ run.at = "none" /\ Len(history) < MaxOps

Applied(op) == Append(history, [op |-> op, before |-> prog])

\* one call of an operation that returns
Returns(op) ==
  /\ \E o \in Operation(op, prog, util, attr.exitBlock) :
       /\ o.outcome = "returned"
       /\ prog' = o.prog
  /\ history' = Applied(op)
  /\ UNCHANGED <<ir, ndebug, pc, iv, attr, cur, phiCount, ivHeap, loopToIVsMap,
                 loopToGoverningIVMap, util, args, run, queueVars>>

CreateChunkPHI ==
  /\ Mutable
  /\ Returns("createChunkPHI")

ChunkLoopGoverningPHI ==
  /\ Mutable
  /\ Returns("chunkLoopGoverningPHI")

UpdateConditionAndBranch ==
  /\ Mutable
  /\ Returns("updateConditionAndBranchToCatchIteratingPastExitValue")

CloneConditionalCheckFor ==
  /\ Mutable
  /\ Returns("cloneConditionalCheckFor")

\* chunkLoopGoverningPHI reads a chunk-counter value that is not there
ChunkLoopGoverningPHICrashes ==
  /\ Mutable
  /\ \E o \in Operation("chunkLoopGoverningPHI", prog, util, attr.exitBlock) :
       o.outcome = "crashed"
  /\ pc' = "crashed"
  /\ history' = Applied("chunkLoopGoverningPHI")
  /\ UNCHANGED <<ir, ndebug, iv, attr, cur, phiCount, ivHeap, loopToIVsMap,
                 loopToGoverningIVMap, util, prog, args, run, queueVars>>

\* the value of a term when the governing PHI holds i and every chunk PHI k
Eval(t, i, k) ==
  LET RECURSIVE Value(_)
      Value(e) ==
        CASE e[1] = "const" -> e[2] % 2^Bits
          [] e[1] = "value" ->
               (CASE e[2] = "c" -> args.bound
                  [] e[2] = "chunkSize" -> args.chunkSize
                  [] e[2] = "chunkStepSize" -> args.chunkStepSize)
          [] e[1] = "phi" -> i
          [] e[1] = "chunkPHI" -> k
          [] e[1] = "add" -> (Value(e[2]) + Value(e[3])) % 2^Bits
          [] e[1] = "icmp" ->
               (IF Holds(e[2], Value(e[3]), Value(e[4])) THEN 1 ELSE 0)
          [] e[1] = "select" ->
               (IF Value(e[2]) = 1 THEN Value(e[3]) ELSE Value(e[4]))
  IN Value(t)

\* the value a PHI takes when the header is entered from block B
Incoming(phi, B, i, k) ==
  IF getBasicBlockIndex(phi, B) = 0 THEN 0
  ELSE Eval(phi[getBasicBlockIndex(phi, B)].value, i, k)

\* the preheader branches to the header
Enter ==
  /\ pc = "derived"
  /\ run.at = "none"
  /\ run' = [at |-> "header",
             i |-> Incoming(prog.phi, "pre", 0, 0),
             k |-> Incoming(prog.chunkPHI, "pre", 0, 0),
             prev |-> Incoming(prog.phi, "pre", 0, 0),
             iterations |-> 0]
  /\ UNCHANGED <<ir, ndebug, pc, iv, attr, cur, phiCount, ivHeap, loopToIVsMap,
                 loopToGoverningIVMap, util, prog, args, history, queueVars>>

\* the block the header branches to
HeaderTarget ==
  IF Eval(CreateICmp(prog.cmp.pred, prog.cmp.ops[1], prog.cmp.ops[2]),
          run.i, run.k) = 1
  THEN prog.br[1] ELSE prog.br[2]

\* one iteration: the header continues into the body and a latch branches
\* back to the header
Iterate ==
  /\ run.at = "header"
  /\ run.iterations < MaxIter
  /\ HeaderTarget \notin ir.exits
  /\ \E j \in 1..Len(prog.phi) :
       /\ prog.phi[j].block # "pre"
       /\ run' = [at |-> "header",
                  i |-> Incoming(prog.phi, prog.phi[j].block, run.i, run.k),
                  k |-> Incoming(prog.chunkPHI, prog.phi[j].block, run.i, run.k),
                  prev |-> run.i,
                  iterations |-> run.iterations + 1]
  /\ UNCHANGED <<ir, ndebug, pc, iv, attr, cur, phiCount, ivHeap, loopToIVsMap,
                 loopToGoverningIVMap, util, prog, args, history, queueVars>>

\* the header branches to an exit block
Leave ==
  /\ run.at = "header"
  /\ HeaderTarget \in ir.exits
  /\ run' = [run EXCEPT !.at = "exited"]
  /\ UNCHANGED <<ir, ndebug, pc, iv, attr, cur, phiCount, ivHeap, loopToIVsMap,
                 loopToGoverningIVMap, util, prog, args, history, queueVars>>

NextMutate ==
  \/ DeriveTransform
  \/ DeriveAborts
  \/ CreateChunkPHI
  \/ ChunkLoopGoverningPHI
  \/ ChunkLoopGoverningPHICrashes
  \/ UpdateConditionAndBranch
  \/ CloneConditionalCheckFor
  \/ Enter
  \/ Iterate
  \/ Leave

SpecMutate == InitMutate /\ [][NextMutate]_vars

(***************************************************************************)
(* Properties of the transform's operations (checked under SpecMutate).    *)
(***************************************************************************)
Update == "updateConditionAndBranchToCatchIteratingPastExitValue"
LastOp == history[Len(history)]

\* C12: applying rewriteExitGuard a second time leaves the comparison's
\* operands and predicate and the branch's successors as the first
\* application left them.
C12_RewriteTwiceSameAsOnce ==
  (/\ Len(history) >= 2
   /\ LastOp.op = Update
   /\ history[Len(history) - 1].op = Update) =>
     /\ prog.cmp = LastOp.before.cmp
     /\ prog.br = LastOp.before.br

\* the loop runs with a chunk counter in its header
Chunked == run.at # "none" /\ prog.chunkPHI # <<>>

\* C13: with a chunk size of at least 1 the chunk counter is 0 on entry from
\* the preheader, goes up by one on every back edge and wraps to 0 on
\* reaching the chunk size: whenever the header is reached it lies in
\* 0..chunkSize-1 and is the number of completed iterations modulo the chunk
\* size.
C13_ChunkCounterCountsModuloChunkSize ==
  (Chunked /\ args.chunkSize >= 1) =>
    /\ run.k \in 0..(args.chunkSize - 1)
    /\ run.k = run.iterations % args.chunkSize

\* the counter has wrapped once and counts the second chunk
C13_Witness ==
  /\ Chunked
  /\ args.chunkSize = 3
  /\ run.iterations = 4
  /\ run.k = 1

\* the chunk counter k completes a chunk on the back edge being taken
WrapCondition(k) == (k + 1) % 2^Bits = args.chunkSize

\* C14: when chunkGoverningIV returns it has left the governing PHI's entry
\* for the preheader as it was, and has made the entry of every other edge
\* evaluate, for every value of the governing PHI and every value the chunk
\* counter takes, to the previous incoming value plus the chunk stride when
\* the chunk counter's wrap condition holds on that edge, and to the previous
\* incoming value otherwise.
C14_StrideAddedWhenChunkCompletes ==
  (/\ Len(history) >= 1
   /\ LastOp.op = "chunkLoopGoverningPHI"
   /\ pc = "derived"
   /\ run.at = "none") =>
     /\ Len(prog.phi) = Len(LastOp.before.phi)
     /\ \A j \in 1..Len(prog.phi) :
          LET old == LastOp.before.phi[j]
              new == prog.phi[j]
          IN /\ new.block = old.block
             /\ IF old.block = "pre" THEN new.value = old.value
                ELSE \A i \in Word, k \in 0..(args.chunkSize - 1) :
                       Eval(new.value, i, k) =
                         IF WrapCondition(k)
                         THEN (Eval(old.value, i, k) + args.chunkStepSize) % 2^Bits
                         ELSE Eval(old.value, i, k)

\* chunkGoverningIV has rewritten a governing PHI with two back edges
C14_Witness ==
  /\ Len(history) >= 1
  /\ LastOp.op = "chunkLoopGoverningPHI"
  /\ pc = "derived"
  /\ Len(prog.phi) = 3
  /\ prog.phi # LastOp.before.phi


\* the loop for (i = 0; i != 10; i++), chunked by buildChunkCounter and
\* chunkGoverningIV with chunk size 4 and stride 4, is running
ChunkedCountToTen ==
  /\ run.at # "none"
  /\ Len(history) = 2
  /\ history[1].op = "createChunkPHI"
  /\ history[2].op = "chunkLoopGoverningPHI"
  /\ args = [bound |-> 10, chunkSize |-> 4, chunkStepSize |-> 4]
  /\ iv.stepSize = <<1>>
  /\ ExitTestIsEquality

\* a back edge has been taken, and it completed a chunk
CompletedChunk == run.iterations >= 1 /\ run.iterations % args.chunkSize = 0

\* C15 as claimed: in that loop the iteration that completes a chunk advances
\* the governing IV by 4.
C15_AdvancesByStrideOnFourthIteration ==
  (ChunkedCountToTen /\ CompletedChunk) =>
    run.i = (run.prev + 4) % 2^Bits

\* C15 amended: in that loop every iteration advances the governing IV by 1,
\* and the iteration that completes a chunk by 4 more.
C15_AdvancesByStepPlusStride ==
  (ChunkedCountToTen /\ run.iterations >= 1) =>
    run.i = IF CompletedChunk THEN (run.prev + 1 + 4) % 2^Bits
            ELSE (run.prev + 1) % 2^Bits

\* the fourth iteration of that loop has taken the IV from 3 to 8
C15_Witness ==
  /\ ChunkedCountToTen
  /\ run.iterations = 4
  /\ run.prev = 3
  /\ run.i = 8


\* every way two operations can end when applied to the loop P in the order
\* first, second
InOrder(first, second, P) ==
  UNION {Operation(second, o.prog, util, attr.exitBlock) :
           o \in {x \in Operation(first, P, util, attr.exitBlock) :
                    x.outcome = "returned"}}

\* the last two operations applied were different ones
LastTwoDiffer ==
  /\ Len(history) >= 2
  /\ history[Len(history) - 1].op # LastOp.op

\* the loop before the last two operations
BeforeLastTwo == history[Len(history) - 1].before

\* the last two operations, applied in the other order to the loop they were
\* applied to, return and leave the loop as it is now
OtherOrderSame ==
  \E o \in InOrder(LastOp.op, history[Len(history) - 1].op, BeforeLastTwo) :
    o.outcome = "returned" /\ o.prog = prog

ChunkingPair ==
  {history[Len(history) - 1].op, LastOp.op} =
    {"createChunkPHI", "chunkLoopGoverningPHI"}

OperandValue(t, i, n) == IF t[1] = "phi" THEN i ELSE n
RewrittenExits(i, n) ==
  LET taken == Holds(prog.cmp.pred, OperandValue(prog.cmp.ops[1], i, n),
                     OperandValue(prog.cmp.ops[2], i, n))
  IN IF taken THEN prog.br[1] = attr.exitBlock ELSE prog.br[2] = attr.exitBlock

\* the block the original header branch continues the loop with
FormerContinueBlock ==
  IF ir.succ[1] = attr.exitBlock THEN ir.succ[2] ELSE ir.succ[1]

\* the exit guard has been rewritten once, on the original comparison and
\* branch
RewrittenOnce ==
  /\ pc = "derived"
  /\ run.at = "none"
  /\ Len(history) = 1
  /\ history[1].op = Update

\* C24: for every predicate, operand order and branch polarity the transform
\* was derived for, after one application of rewriteExitGuard to the original
\* comparison and branch the header leaves the loop for exactly the same
\* pairs (IV value, bound value) as before when the exit test in the
\* normalized frame is not equality, and for a superset of them when it is;
\* the branch's first successor is the exit block and its second the former
\* continue block.
C24_RewriteKeepsOrWidensTheExit ==
  RewrittenOnce =>
    /\ prog.br = <<attr.exitBlock, FormerContinueBlock>>
    /\ IF FramePredicate # "ICMP_EQ"
       THEN \A i \in Word, n \in Word : RewrittenExits(i, n) <=> OriginalExits(i, n)
       ELSE \A i \in Word, n \in Word : OriginalExits(i, n) => RewrittenExits(i, n)

\* a loop whose comparison has the IV on the right and whose branch leaves on
\* false has been rewritten, and one whose exit test is equality now leaves
\* for more pairs than before
C24_Witness ==
  /\ RewrittenOnce
  /\ ir.ops[2] = iv.headerPHI
  /\ ir.succ[2] = attr.exitBlock
  /\ prog.cmp.ops # history[1].before.cmp.ops
  /\ prog.br # ir.succ
  /\ FramePredicate \in LessFamily \cup GreaterFamily

(***************************************************************************)
(* SpecRewrite: the three rewriting operations of LoopGoverningIVUtility   *)
(* applied to one loop, each at most once and in any order, and the loop   *)
(* then run.                                                               *)
(***************************************************************************)
\* the operation has not been applied to the loop yet
NotYet(op) ==
  /\ pc = "derived"
  /\ run.at = "none"
  /\ \A j \in 1..Len(history) : history[j].op # op

CreateChunkPHIOnce ==
  /\ NotYet("createChunkPHI")
  /\ Returns("createChunkPHI")

ChunkLoopGoverningPHIOnce ==
  /\ NotYet("chunkLoopGoverningPHI")
  /\ Returns("chunkLoopGoverningPHI")

\* chunkLoopGoverningPHI called before createChunkPHI reads a chunk-counter
\* value that is not there
ChunkLoopGoverningPHIOnceCrashes ==
  /\ NotYet("chunkLoopGoverningPHI")
  /\ \E o \in Operation("chunkLoopGoverningPHI", prog, util, attr.exitBlock) :
       o.outcome = "crashed"
  /\ pc' = "crashed"
  /\ history' = Applied("chunkLoopGoverningPHI")
  /\ UNCHANGED <<ir, ndebug, iv, attr, cur, phiCount, ivHeap, loopToIVsMap,
                 loopToGoverningIVMap, util, prog, args, run, queueVars>>

UpdateConditionAndBranchOnce ==
  /\ NotYet(Update)
  /\ Returns(Update)

NextRewrite ==
  \/ DeriveTransform
  \/ DeriveAborts
  \/ CreateChunkPHIOnce
  \/ ChunkLoopGoverningPHIOnce
  \/ ChunkLoopGoverningPHIOnceCrashes
  \/ UpdateConditionAndBranchOnce
  \/ Enter
  \/ Iterate
  \/ Leave

SpecRewrite == InitMutate /\ [][NextRewrite]_vars

\* the value the governing PHI starts the loop with
StartValue == Incoming(history[1].before.phi, "pre", 0, 0)

\* a loop whose IV has a positive step and whose original exit test is
\* equality against a bound at or above the start value has been chunked and
\* had its exit guard rewritten, and runs
ChunkedAndRewritten ==
  /\ pc = "derived"
  /\ run.at # "none"
  /\ {history[j].op : j \in 1..Len(history)} =
       {"createChunkPHI", "chunkLoopGoverningPHI", Update}
  /\ iv.stepSize[1] > 0
  /\ args.chunkStepSize >= 0
  /\ StartValue <= args.bound
  /\ ExitTestIsEquality

\* C25: a loop with a positive constant step whose original exit test is
\* equality against a bound at or above the start value, rewritten with
\* buildChunkCounter, chunkGoverningIV and rewriteExitGuard, always exits: the
\* header leaves the loop exactly when the IV is at or above the bound, every
\* earlier header evaluation saw the IV below the bound, the IV grows on every
\* iteration (no wrap-around), and the run is never cut short by the
\* iteration limit.
C25_ChunkedEqualityLoopExits ==
  ChunkedAndRewritten =>
    /\ run.at = "header" => ((HeaderTarget \in ir.exits) <=> (run.i >= args.bound))
    /\ run.at = "exited" => run.i >= args.bound
    /\ run.iterations > 0 => (run.prev < args.bound /\ run.i >= run.prev + iv.stepSize[1])
    /\ run.i >= run.iterations * iv.stepSize[1]
    /\ (run.at = "header" /\ HeaderTarget \notin ir.exits) => run.iterations < MaxIter

\* the chunked stepping has jumped over the exact bound value and the loop
\* has left
C25_Witness ==
  /\ ChunkedAndRewritten
  /\ run.at = "exited"
  /\ run.prev < args.bound
  /\ run.i > args.bound

(***************************************************************************)
(* SpecQueue: threads calling the methods of one ThreadSafeQueue.  Every   *)
(* method holds m_mutex from its first statement to its return, except     *)
(* while it waits on a condition variable, so a call is one step, or one   *)
(* step up to its wait and one step from each wake-up on.                  *)
(***************************************************************************)
NThreads == 3   \* threads using the queue
MaxCalls == 3   \* calls made on the queue altogether
MaxSize == 2    \* largest maxSize passed to waitPush

Threads == 1..NThreads

\* a thread that has made no call
NoCall ==
  [op |-> "none", pc |-> "idle", value |-> 0, maxSize |-> 0, result |-> "none",
   blocked |-> FALSE, freed |-> FALSE, removed |-> 0, late |-> FALSE,
   caught |-> FALSE]

\* condition_variable::notify_one waking nobody
notify_one_Nobody(condition) == {condition}

\* condition_variable::notify_one: every set of waiters it can leave
notify_one(condition) ==
  IF condition = {} THEN {{}} ELSE {condition \ {w} : w \in condition}

\* condition_variable::notify_all
notify_all(condition) == {}

\* internal_push: the queue and the waiters on empty_condition afterwards
internal_push(queue, value, empty) ==
  {[m_queue |-> Append(queue, value), empty_condition |-> e] :
     e \in notify_one(empty)}

\* internal_pop handing out the front element without removing it
internal_pop_KeepsFront(queue, full) ==
  IF queue = <<>>
  THEN {[out |-> 0, m_queue |-> <<>>, full_condition |-> f, underflow |-> TRUE] :
          f \in notify_one(full)}
  ELSE {[out |-> Head(queue), m_queue |-> queue, full_condition |-> f,
         underflow |-> FALSE] : f \in notify_one(full)}

\* internal_pop and the body of waitPop(void): the element taken, the queue
\* and the waiters on full_condition afterwards; on an empty queue front()
\* and pop() are undefined, recorded as underflow
internal_pop(queue, full) ==
  IF queue = <<>>
  THEN {[out |-> 0, m_queue |-> <<>>, full_condition |-> f, underflow |-> TRUE] :
          f \in notify_one(full)}
  ELSE {[out |-> Head(queue), m_queue |-> Tail(queue), full_condition |-> f,
         underflow |-> FALSE] : f \in notify_one(full)}

\* invalidate waking the waiters on empty_condition only
invalidate_EmptyOnly(valid, empty, full) ==
  IF ~valid
  THEN [m_valid |-> valid, empty_condition |-> empty, full_condition |-> full]
  ELSE [m_valid |-> FALSE, empty_condition |-> notify_all(empty),
        full_condition |-> full]

\* invalidate: the flag and the waiters afterwards
invalidate(valid, empty, full) ==
  IF ~valid
  THEN [m_valid |-> valid, empty_condition |-> empty, full_condition |-> full]
  ELSE [m_valid |-> FALSE, empty_condition |-> notify_all(empty),
        full_condition |-> notify_all(full)]

\* waitPop's predicate without the test of the queue
PopReady_Always(queue, valid) == TRUE

\* the predicate waitPop waits for
PopReady(queue, valid) == queue # <<>> \/ ~valid

\* waitPush's predicate without the test of the size
PushReady_Always(queue, valid, maxSize) == TRUE

\* the predicate waitPush waits for
PushReady(queue, valid, maxSize) == Len(queue) < maxSize \/ ~valid

InitQueue ==
  /\ ir = XformLoop("ICMP_NE", <<"phi1", "c">>, <<"body", "exit">>)
  /\ ndebug = FALSE
  /\ pc = "queue"
  /\ iv = NoIV
  /\ attr = NewAttribution
  /\ cur = NoCur
  /\ phiCount = 0
  /\ ivHeap = {}
  /\ loopToIVsMap = {}
  /\ loopToGoverningIVMap = Null
  /\ util = NoUtil
  /\ LoopUntouched
  /\ m_valid = TRUE
  /\ m_queue = <<>>
  /\ empty_condition = {}
  /\ full_condition = {}
  /\ thread = [t \in Threads |-> NoCall]
  /\ ghost = [calls |-> 0, pushes |-> 0, pushUsed |-> FALSE, maxSizes |-> {},
              underflow |-> FALSE, atInvalidate |-> <<>>,
              pushed |-> <<>>, delivered |-> <<>>]
  /\ pool = NoPool

analysisVars == <<ir, ndebug, pc, iv, attr, cur, phiCount, ivHeap, loopToIVsMap,
                  loopToGoverningIVMap, util, loopVars>>

\* thread t may start a call; threads run the same code, so they are numbered
\* in the order of their first calls
Idle(t) ==
  /\ thread[t].pc = "idle"
  /\ ghost.calls < MaxCalls
  /\ \A u \in 1..(t - 1) : thread[u].op # "none"

\* thread t has been notified, or has woken up spuriously, and runs again
Woken(t, op) ==
  /\ thread[t].pc = "blocked"
  /\ thread[t].op = op
  /\ t \notin empty_condition \cup full_condition

\* the record of a call thread t starts
Call(op, value, maxSize) ==
  [NoCall EXCEPT !.op = op, !.value = value, !.maxSize = maxSize,
                 !.late = ~m_valid]

\* a pop, clear or invalidate has happened while these threads were blocked
Freed(thr) ==
  [t \in Threads |->
     IF thr[t].pc = "blocked" THEN [thr[t] EXCEPT !.freed = TRUE] ELSE thr[t]]

Started == [ghost EXCEPT !.calls = @ + 1]

\* the call c of thread t takes the front element and returns true
Pops(t, c, g) ==
  \E o \in internal_pop(m_queue, full_condition) :
    /\ m_queue' = o.m_queue
    /\ full_condition' = o.full_condition
    /\ thread' = [Freed(thread) EXCEPT
                    ![t] = [c EXCEPT !.pc = "idle", !.result = "true",
                                     !.value = o.out, !.removed = @ + 1]]
    /\ ghost' = [g EXCEPT !.underflow = @ \/ o.underflow,
                          !.delivered = IF c.op = "waitPopVoid" THEN @
                                        ELSE Append(@, o.out)]
    /\ UNCHANGED <<m_valid, empty_condition>>

\* the call c of thread t appends its value and returns
Pushes(t, c, g, result) ==
  \E o \in internal_push(m_queue, c.value, empty_condition) :
    /\ m_queue' = o.m_queue
    /\ empty_condition' = o.empty_condition
    /\ thread' = [thread EXCEPT ![t] = [c EXCEPT !.pc = "idle",
                                                 !.result = result]]
    /\ ghost' = [g EXCEPT !.pushed = Append(@, c.value)]
    /\ UNCHANGED <<m_valid, full_condition>>

\* the call c of thread t returns false and leaves the queue alone
Fails(t, c, g) ==
  /\ thread' = [thread EXCEPT ![t] = [c EXCEPT !.pc = "idle",
                                               !.result = "false"]]
  /\ ghost' = g
  /\ UNCHANGED <<m_valid, m_queue, empty_condition, full_condition>>

TryPop(t) ==
  /\ Idle(t)
  /\ IF m_queue = <<>> \/ ~m_valid
     THEN Fails(t, Call("tryPop", 0, 0), Started)
     ELSE Pops(t, Call("tryPop", 0, 0), Started)
  /\ UNCHANGED <<analysisVars, pool>>

\* waitPop(T&) and waitPop(void) up to the wait or, when there is none, to
\* the return
WaitPop(t) ==
  /\ Idle(t)
  /\ \E op \in {"waitPop", "waitPopVoid"} :
       LET c == Call(op, 0, 0) IN
       IF ~m_valid THEN Fails(t, c, Started)
       ELSE IF m_queue = <<>>
       THEN /\ thread' = [thread EXCEPT ![t] = [c EXCEPT !.pc = "blocked",
                                                         !.blocked = TRUE]]
            /\ empty_condition' = empty_condition \cup {t}
            /\ ghost' = Started
            /\ UNCHANGED <<m_valid, m_queue, full_condition>>
       ELSE Pops(t, c, Started)
  /\ UNCHANGED <<analysisVars, pool>>

\* waitPop from a wake-up on: it waits again unless its predicate holds
ResumeWaitPop(t) ==
  /\ Woken(t, "waitPop") \/ Woken(t, "waitPopVoid")
  /\ IF ~PopReady(m_queue, m_valid)
     THEN /\ empty_condition' = empty_condition \cup {t}
          /\ UNCHANGED <<m_valid, m_queue, full_condition, thread, ghost>>
     ELSE IF ~m_valid THEN Fails(t, thread[t], ghost)
     ELSE Pops(t, thread[t], ghost)
  /\ UNCHANGED <<analysisVars, pool>>

Push(t) ==
  /\ Idle(t)
  /\ Pushes(t, Call("push", ghost.pushes + 1, 0),
            [Started EXCEPT !.pushes = @ + 1, !.pushUsed = TRUE], "none")
  /\ UNCHANGED <<analysisVars, pool>>

\* waitPush up to the wait or, when there is none, to the return
WaitPush(t) ==
  /\ Idle(t)
  /\ \E maxSize \in 1..MaxSize :
       LET c == Call("waitPush", ghost.pushes + 1, maxSize)
           g == [Started EXCEPT !.pushes = @ + 1,
                                !.maxSizes = @ \cup {maxSize}]
       IN
       IF ~PushReady(m_queue, m_valid, maxSize)
       THEN /\ thread' = [thread EXCEPT ![t] = [c EXCEPT !.pc = "blocked",
                                                         !.blocked = TRUE]]
            /\ full_condition' = full_condition \cup {t}
            /\ ghost' = g
            /\ UNCHANGED <<m_valid, m_queue, empty_condition>>
       ELSE IF ~m_valid THEN Fails(t, c, g)
       ELSE Pushes(t, c, g, "true")
  /\ UNCHANGED <<analysisVars, pool>>

\* waitPush from a wake-up on
ResumeWaitPush(t) ==
  /\ Woken(t, "waitPush")
  /\ IF ~PushReady(m_queue, m_valid, thread[t].maxSize)
     THEN /\ full_condition' = full_condition \cup {t}
          /\ UNCHANGED <<m_valid, m_queue, empty_condition, thread, ghost>>
     ELSE IF ~m_valid THEN Fails(t, thread[t], ghost)
     ELSE Pushes(t, thread[t], ghost, "true")
  /\ UNCHANGED <<analysisVars, pool>>

Clear(t) ==
  /\ Idle(t)
  /\ m_queue' = <<>>
  /\ full_condition' = notify_all(full_condition)
  /\ thread' = [Freed(thread) EXCEPT
                  ![t] = [Call("clear", 0, 0) EXCEPT
                            !.removed = Len(m_queue)]]
  /\ ghost' = Started
  /\ UNCHANGED <<m_valid, empty_condition>>
  /\ UNCHANGED <<analysisVars, pool>>

Invalidate(t) ==
  /\ Idle(t)
  /\ LET o == invalidate(m_valid, empty_condition, full_condition) IN
       /\ m_valid' = o.m_valid
       /\ empty_condition' = o.empty_condition
       /\ full_condition' = o.full_condition
  /\ thread' = [u \in Threads |->
                  IF u = t THEN Call("invalidate", 0, 0)
                  ELSE IF thread[u].pc = "blocked" /\ m_valid
                  THEN [thread[u] EXCEPT !.freed = TRUE, !.caught = TRUE]
                  ELSE thread[u]]
  /\ ghost' = [Started EXCEPT
                 !.atInvalidate = IF m_valid THEN m_queue ELSE @]
  /\ UNCHANGED m_queue
  /\ UNCHANGED <<analysisVars, pool>>

\* a waiting thread wakes up without having been notified
SpuriousWakeup(t) ==
  /\ thread[t].pc = "blocked"
  /\ t \in empty_condition \cup full_condition
  /\ empty_condition' = empty_condition \ {t}
  /\ full_condition' = full_condition \ {t}
  /\ UNCHANGED <<m_valid, m_queue, thread, ghost>>
  /\ UNCHANGED <<analysisVars, pool>>

NextQueue ==
  \E t \in Threads :
    \/ TryPop(t)
    \/ WaitPop(t)
    \/ ResumeWaitPop(t)
    \/ Push(t)
    \/ WaitPush(t)
    \/ ResumeWaitPush(t)
    \/ Clear(t)
    \/ Invalidate(t)
    \/ SpuriousWakeup(t)

SpecQueue == InitQueue /\ [][NextQueue]_vars

\* A thread that has been woken runs again: the scheduler gives every
\* runnable thread the processor, and m_mutex is free again after finitely
\* many steps of its holder.
SpecQueueFair ==
  /\ SpecQueue
  /\ \A t \in Threads : WF_vars(ResumeWaitPop(t)) /\ WF_vars(ResumeWaitPush(t))

(***************************************************************************)
(* Properties of the queue (checked under SpecQueue and SpecQueueFair).    *)
(***************************************************************************)
WaitPops == {"waitPop", "waitPopVoid"}

\* C17: when no thread has called push and every waitPush was given the
\* same maxSize, the queue never holds more than maxSize elements; and a
\* waitPush that found the queue full has enqueued only if a pop, clear or
\* invalidate happened while it was blocked.
C17_WaitPushBoundsTheQueue ==
  /\ \A m \in 1..MaxSize :
       (~ghost.pushUsed /\ ghost.maxSizes \subseteq {m}) => Len(m_queue) <= m
  /\ \A t \in Threads :
       (/\ thread[t].op = "waitPush"
        /\ thread[t].blocked
        /\ thread[t].result = "true") => thread[t].freed

\* a waitPush that found the queue full has enqueued after a pop, filling the
\* queue again
C17_Witness ==
  /\ ~ghost.pushUsed
  /\ \E t \in Threads :
       /\ thread[t].op = "waitPush"
       /\ thread[t].blocked
       /\ thread[t].result = "true"
       /\ ghost.maxSizes = {thread[t].maxSize}
       /\ Len(m_queue) = thread[t].maxSize

C19_InvalidateUnblocksAllWaiters ==
  \A t \in Threads :
    (thread[t].pc = "blocked" /\ thread[t].caught) ~> (thread[t].pc = "idle")

\* two threads that were blocked when invalidate was called have returned
\* false
C19_Witness ==
  \E t \in Threads, u \in Threads :
    /\ t # u
    /\ thread[t].caught /\ thread[t].pc = "idle" /\ thread[t].result = "false"
    /\ thread[u].caught /\ thread[u].pc = "idle" /\ thread[u].result = "false"

\* C20: once the queue is invalidated its contents stay as they were, and
\* every waitPop, tryPop and waitPush called afterwards returns false.
C20_NothingChangesAfterInvalidate ==
  ~m_valid =>
    /\ m_queue = ghost.atInvalidate
    /\ \A t \in Threads :
         (/\ thread[t].late
          /\ thread[t].pc = "idle"
          /\ thread[t].op \in WaitPops \cup {"tryPop", "waitPush"}) =>
            thread[t].result = "false"


\* the sequence s without its elements outside the set S
Restricted(s, S) == LET In(x) == x \in S IN SelectSeq(s, In)

\* the elements of a sequence
Range(s) == {s[j] : j \in 1..Len(s)}

numThreads == 2     \* worker threads of the pool
MaxTasks == 2       \* tasks submitted to the pool
MaxCallbacks == 2   \* shutdown callbacks registered with the pool

Workers == 1..numThreads

\* a worker thread the constructor has started
NewWorker == [pc |-> "loop", pTask |-> 0, availability |-> TRUE]

\* the pool the constructor leaves; code is its callback argument, none when
\* it is nullptr
NewPool(code) ==
  [pc |-> "alive", m_done |-> FALSE,
   codeToExecuteByTheDeconstructor |-> code, joined |-> 0]

\* a worker loop that never tests m_done
LoopContinues_Forever(done) == TRUE

\* the test of the worker's loop
LoopContinues(done) == ~done

\* the drain loop taking the callback registered last
TakeCallback_Last(queue) ==
  [code |-> queue[Len(queue)], rest |-> SubSeq(queue, 1, Len(queue) - 1)]

\* one round of destroy's drain loop: waitPop on the callback queue, which is
\* not empty
TakeCallback(queue) ==
  LET o == CHOOSE x \in internal_pop(queue, {}) : TRUE
  IN [code |-> o.out, rest |-> o.m_queue]

InitPool ==
  /\ ir = XformLoop("ICMP_NE", <<"phi1", "c">>, <<"body", "exit">>)
  /\ ndebug = FALSE
  /\ pc = "pool"
  /\ iv = NoIV
  /\ attr = NewAttribution
  /\ cur = NoCur
  /\ phiCount = 0
  /\ ivHeap = {}
  /\ loopToIVsMap = {}
  /\ loopToGoverningIVMap = Null
  /\ util = NoUtil
  /\ LoopUntouched
  /\ m_valid = TRUE
  /\ m_queue = <<>>
  /\ empty_condition = {}
  /\ full_condition = {}
  /\ thread = [w \in Workers |-> NewWorker]
  /\ \E code \in {<<>>, <<1>>} :
       /\ pool = NewPool(code)
       /\ ghost = [submitted |-> 0, registered |-> Len(code), ran |-> <<>>,
                   atDrainEnd |-> 0, atInvalidate |-> <<>>,
                   dequeued |-> <<>>, started |-> <<>>, finished |-> {}]

\* line 625: the worker tests m_done and leaves, or sets its availability
\* flag and goes on to waitPop
TestsDone(w) ==
  /\ thread[w].pc = "loop"
  /\ thread' = [thread EXCEPT ![w] =
                  IF LoopContinues(pool.m_done)
                  THEN [@ EXCEPT !.pc = "waitPop", !.availability = TRUE]
                  ELSE [@ EXCEPT !.pc = "exited"]]
  /\ UNCHANGED <<m_valid, m_queue, empty_condition, full_condition, ghost,
                 pool, analysisVars>>

\* waitPop hands worker w the front task and returns true
Dequeues(w) ==
  \E o \in internal_pop(m_queue, full_condition) :
    /\ m_queue' = o.m_queue
    /\ full_condition' = o.full_condition
    /\ thread' = [thread EXCEPT ![w] = [@ EXCEPT !.pc = "holding",
                                                 !.pTask = o.out]]
    /\ ghost' = [ghost EXCEPT
                   !.dequeued = Append(@, [task |-> o.out, worker |-> w,
                                           valid |-> m_valid])]
    /\ UNCHANGED empty_condition

\* waitPop returns false to worker w
ReturnsFalse(w) ==
  /\ thread' = [thread EXCEPT ![w] = [@ EXCEPT !.pc = "loop"]]
  /\ UNCHANGED <<m_queue, empty_condition, full_condition, ghost>>

\* worker w waits on empty_condition
Waits(w) ==
  /\ thread' = [thread EXCEPT ![w] = [@ EXCEPT !.pc = "blocked"]]
  /\ empty_condition' = empty_condition \cup {w}
  /\ UNCHANGED <<m_queue, full_condition, ghost>>

\* line 628: waitPop up to its wait or, when there is none, to its return
WorkerWaitPop(w) ==
  /\ thread[w].pc = "waitPop"
  /\ IF ~m_valid THEN ReturnsFalse(w)
     ELSE IF m_queue = <<>> THEN Waits(w)
     ELSE Dequeues(w)
  /\ UNCHANGED <<m_valid, pool, analysisVars>>

\* waitPop from a wake-up on
WorkerResumes(w) ==
  /\ thread[w].pc = "blocked"
  /\ w \notin empty_condition
  /\ IF ~PopReady(m_queue, m_valid) THEN Waits(w)
     ELSE IF ~m_valid THEN ReturnsFalse(w)
     ELSE Dequeues(w)
  /\ UNCHANGED <<m_valid, pool, analysisVars>>

\* a waiting worker wakes up without having been notified
WorkerWakesSpuriously(w) ==
  /\ thread[w].pc = "blocked"
  /\ w \in empty_condition
  /\ empty_condition' = empty_condition \ {w}
  /\ UNCHANGED <<m_valid, m_queue, full_condition, thread, ghost, pool,
                 analysisVars>>

\* lines 629-630: the worker clears its availability flag and starts the task
Executes(w) ==
  /\ thread[w].pc = "holding"
  /\ thread' = [thread EXCEPT ![w] = [@ EXCEPT !.pc = "executing",
                                               !.availability = FALSE]]
  /\ ghost' = [ghost EXCEPT
                 !.started = Append(@, [task |-> thread[w].pTask,
                                        worker |-> w])]
  /\ UNCHANGED <<m_valid, m_queue, empty_condition, full_condition, pool,
                 analysisVars>>

\* the task returns and the worker goes back to its loop test
TaskReturns(w) ==
  /\ thread[w].pc = "executing"
  /\ thread' = [thread EXCEPT ![w] = [@ EXCEPT !.pc = "loop", !.pTask = 0]]
  /\ ghost' = [ghost EXCEPT !.finished = @ \cup {thread[w].pTask}]
  /\ UNCHANGED <<m_valid, m_queue, empty_condition, full_condition, pool,
                 analysisVars>>

\* submit and submitAndDetach: the task is pushed on m_workQueue
Submit ==
  /\ pool.pc # "returned"
  /\ ghost.submitted < MaxTasks
  /\ \E o \in internal_push(m_queue, ghost.submitted + 1, empty_condition) :
       /\ m_queue' = o.m_queue
       /\ empty_condition' = o.empty_condition
  /\ ghost' = [ghost EXCEPT !.submitted = @ + 1]
  /\ UNCHANGED <<m_valid, full_condition, thread, pool, analysisVars>>

AppendCodeToDeconstructor ==
  /\ pool.pc # "returned"
  /\ ghost.registered < MaxCallbacks
  /\ pool' = [pool EXCEPT !.codeToExecuteByTheDeconstructor =
                            Append(@, ghost.registered + 1)]
  /\ ghost' = [ghost EXCEPT !.registered = @ + 1]
  /\ UNCHANGED <<m_valid, m_queue, empty_condition, full_condition, thread,
                 analysisVars>>

\* the destructor calls destroy
DestroyBegins ==
  /\ pool.pc = "alive"
  /\ pool' = [pool EXCEPT !.pc = "drain"]
  /\ UNCHANGED <<m_valid, m_queue, empty_condition, full_condition, thread,
                 ghost, analysisVars>>

\* lines 645-649: one round of the drain loop
RunsCallback ==
  /\ pool.pc = "drain"
  /\ pool.codeToExecuteByTheDeconstructor # <<>>
  /\ LET o == TakeCallback(pool.codeToExecuteByTheDeconstructor) IN
       /\ pool' = [pool EXCEPT !.codeToExecuteByTheDeconstructor = o.rest]
       /\ ghost' = [ghost EXCEPT !.ran = Append(@, o.code)]
  /\ UNCHANGED <<m_valid, m_queue, empty_condition, full_condition, thread,
                 analysisVars>>

\* lines 645 and 654: the drain loop finds the callback queue empty and
\* m_done is set
SetsDone ==
  /\ pool.pc = "drain"
  /\ pool.codeToExecuteByTheDeconstructor = <<>>
  /\ pool' = [pool EXCEPT !.m_done = TRUE, !.pc = "invalidate"]
  /\ ghost' = [ghost EXCEPT !.atDrainEnd = ghost.registered]
  /\ UNCHANGED <<m_valid, m_queue, empty_condition, full_condition, thread,
                 analysisVars>>

\* line 655
InvalidatesWorkQueue ==
  /\ pool.pc = "invalidate"
  /\ LET o == invalidate(m_valid, empty_condition, full_condition) IN
       /\ m_valid' = o.m_valid
       /\ empty_condition' = o.empty_condition
       /\ full_condition' = o.full_condition
  /\ pool' = [pool EXCEPT !.pc = "join"]
  /\ ghost' = [ghost EXCEPT !.atInvalidate = [w \in Workers |-> thread[w].pc]]
  /\ UNCHANGED <<m_queue, thread, analysisVars>>

\* lines 660-665: the threads are joined in the order they were started
Joins ==
  /\ pool.pc = "join"
  /\ pool.joined < numThreads
  /\ thread[pool.joined + 1].pc = "exited"
  /\ pool' = [pool EXCEPT !.joined = @ + 1]
  /\ UNCHANGED <<m_valid, m_queue, empty_condition, full_condition, thread,
                 ghost, analysisVars>>

\* lines 666-668
DestroyReturns ==
  /\ pool.pc = "join"
  /\ pool.joined = numThreads
  /\ pool' = [pool EXCEPT !.pc = "returned"]
  /\ UNCHANGED <<m_valid, m_queue, empty_condition, full_condition, thread,
                 ghost, analysisVars>>

NextPool ==
  \/ \E w \in Workers :
       \/ TestsDone(w)
       \/ WorkerWaitPop(w)
       \/ WorkerResumes(w)
       \/ WorkerWakesSpuriously(w)
       \/ Executes(w)
       \/ TaskReturns(w)
  \/ Submit
  \/ AppendCodeToDeconstructor
  \/ DestroyBegins
  \/ RunsCallback
  \/ SetsDone
  \/ InvalidatesWorkQueue
  \/ Joins
  \/ DestroyReturns

SpecPool == InitPool /\ [][NextPool]_vars

\* Every worker that can take a step takes one (the scheduler runs every
\* runnable thread and the queue's mutex is free again after finitely many
\* steps of its holder), every task returns, and the thread in destroy goes
\* on with its joins.  Nothing obliges a client to submit, register or
\* destroy, or a waiting worker to wake up spuriously.
SpecPoolFair ==
  /\ SpecPool
  /\ \A w \in Workers :
       /\ WF_vars(TestsDone(w))
       /\ WF_vars(WorkerWaitPop(w))
       /\ WF_vars(WorkerResumes(w))
       /\ WF_vars(Executes(w))
       /\ WF_vars(TaskReturns(w))
  /\ WF_vars(Joins)
  /\ WF_vars(DestroyReturns)

\* destruction has set the done flag and invalidated the task queue
DoneAndInvalidated == pool.pc = "join"

\* C21: destroying a ThreadPool terminates: once destruction has set the done
\* flag and invalidated the task queue, every worker, whether it was waiting
\* for work or is finishing a task, eventually leaves its loop, all joins
\* complete and destruction returns.
C21_DestructionTerminates ==
  DoneAndInvalidated ~>
    (/\ pool.pc = "returned"
     /\ pool.joined = numThreads
     /\ \A w \in Workers : thread[w].pc = "exited")

\* destruction has returned after invalidating the queue while one worker
\* waited for work and another was running a task
C21_Witness ==
  /\ pool.pc = "returned"
  /\ \E w, u \in Workers :
       /\ ghost.atInvalidate[w] = "blocked"
       /\ ghost.atInvalidate[u] = "executing"

\* the callbacks 1..n in the order of their registration
InRegistrationOrder(n) == [j \in 1..n |-> j]

\* destruction has returned
Destroyed == pool.pc = "returned"

\* C22 as claimed: when destruction returns it has invalidated the task
\* queue, joined all workers and run every registered shutdown callback
\* exactly once, in registration order.
C22_RunsEveryCallbackRegistered ==
  Destroyed =>
    /\ ~m_valid
    /\ pool.joined = numThreads
    /\ \A w \in Workers : thread[w].pc = "exited"
    /\ ghost.ran = InRegistrationOrder(ghost.registered)

\* C22: when destruction returns it has invalidated the task queue, joined
\* all workers and run exactly once, in registration order, every shutdown
\* callback registered before its drain loop found the callback queue empty;
\* a callback registered later is still in the queue and has not run.
C22_RunsCallbacksRegisteredBeforeDrainEnds ==
  /\ \E n \in 0..ghost.registered : ghost.ran = InRegistrationOrder(n)
  /\ Destroyed =>
       /\ ~m_valid
       /\ pool.joined = numThreads
       /\ \A w \in Workers : thread[w].pc = "exited"
       /\ ghost.ran = InRegistrationOrder(ghost.atDrainEnd)
       /\ pool.codeToExecuteByTheDeconstructor =
            [j \in 1..(ghost.registered - ghost.atDrainEnd) |->
               ghost.atDrainEnd + j]

\* destruction has returned after a task was executed, having run the
\* constructor's callback and then one registered through
\* appendCodeToDeconstructor
C22_Witness ==
  /\ Destroyed
  /\ ghost.ran = <<1, 2>>
  /\ ghost.registered = 2
  /\ ghost.finished # {}

\* task k has been dequeued, and by whom it has been started
StartsOf(k) == {j \in 1..Len(ghost.started) : ghost.started[j].task = k}
DequeuesOf(k) == {j \in 1..Len(ghost.dequeued) : ghost.dequeued[j].task = k}

\* no task is started twice, a worker starts only a task that waitPop handed
\* to it, and waitPop hands out tasks only while the queue is valid
TasksRunAtMostOnce ==
  /\ \A k \in 1..MaxTasks :
       /\ Cardinality(StartsOf(k)) <= 1
       /\ Cardinality(DequeuesOf(k)) <= 1
       /\ \A j \in StartsOf(k) : \E d \in DequeuesOf(k) :
            ghost.dequeued[d].worker = ghost.started[j].worker
  /\ \A d \in 1..Len(ghost.dequeued) :
       /\ ghost.dequeued[d].valid
       /\ ghost.dequeued[d].task \in 1..ghost.submitted
  /\ ghost.finished \subseteq {ghost.started[j].task : j \in 1..Len(ghost.started)}

\* task k is still in the queue of a pool whose destruction has set the done
\* flag or invalidated the queue
DestroyedBeforeDequeued(k) ==
  (pool.m_done \/ ~m_valid) /\ k \in Range(m_queue)

\* C27: every submitted task is executed exactly once, by exactly one worker,
\* eventually, unless destruction sets the done flag or invalidates the
\* queue while the task is still in it (every task terminates); once the
\* queue is invalidated no task is dequeued, so no worker starts a task it
\* did not already hold.
C27_SubmittedTasksRunOnce ==
  /\ []TasksRunAtMostOnce
  /\ \A k \in 1..MaxTasks :
       (ghost.submitted >= k) ~>
         (k \in ghost.finished \/ DestroyedBeforeDequeued(k))

\* destruction has returned: one task was executed and another, submitted
\* too late, is still in the invalidated queue
C27_Witness ==
  /\ pool.pc = "returned"
  /\ 1 \in ghost.finished
  /\ m_queue = <<2>>
  /\ \E w \in Workers : ghost.atInvalidate[w] = "blocked"

====
